---- MODULE Spec2Model ----
(***************************************************************************)
(* Ghost Wheel, keyboard variant (src/main_wasd.js): the marker-anchored   *)
(* AR plane state machine, the car physics integrator and the render loop. *)
(*                                                                         *)
(* Numbers.  JavaScript numbers are IEEE doubles; here every length, speed *)
(* and angle is a fixed-point integer counting units of 1/Scale, and every *)
(* product is rounded to the nearest unit, as a double rounds to the       *)
(* nearest representable value.  Time counts units of 1/3 ms, so that the  *)
(* recognition interval 1000/30 ms is the integer 100.                     *)
(***************************************************************************)
EXTENDS Integers, Sequences, FiniteSets, TLC

VARIABLES
    carSystem,        \* position, velocity, rotation, speed, keys
    arSystem,         \* markerDetected, lastDetectionTime, planeMatrix, ...
    arLoaded,         \* ARToolKit loaded and the getMarker listener registered
    arController,     \* "none" | "loading" | "ready" | "failed"
    container,        \* THREE.Object3D: "none" before setupThreeJS, else [visible, matrix]
    carModel,         \* "none" | "loading" | the model's [x, z, rotY]
    gridVisible,      \* gridPlane.visible
    markerStatus,     \* text of the #marker-status element
    camera,           \* "none" | "generic" | "ar" | "perspective" (the fallback camera)
    keyboard,         \* the keydown/keyup listeners are installed
    lastProcessTime,  \* time of the last successful arController.process
    clock,            \* time stamp of the latest animation frame
    pc,               \* "idle" | "process": renderLoop is inside arController.process
    frames,           \* number of renderLoop invocations so far
    dispatched,       \* getMarker events dispatched by the current process call
    segments,         \* runs of frames with one key combination (drive runs only)
    segFrames,        \* frames of the current run (drive runs only)
    keysAtFrame,      \* carSystem.keys as the latest frame saw them
    anchorWrites,     \* writes of arSystem.planeMatrix since the last reset
    invokedAt,        \* frame time of the latest arController.process call, -1: none yet
    video,            \* camera acquisition of the keyboard variant, see VideoStates
    gesture,          \* the GhostWheelAR object of the gesture variant
    cam,              \* the camera layer of the keyboard variant, see camInitial
    last              \* the handler that ran last, with its input and outcome

vars == << carSystem, arSystem, arLoaded, arController, container, carModel,
           gridVisible, markerStatus, camera, keyboard, lastProcessTime, clock,
           pc, frames, dispatched, segments, segFrames, keysAtFrame,
           anchorWrites, invokedAt, video, gesture, cam, last >>

----------------------------------------------------------------------------
(* Bounds of the model *)

MaxFrames == 3          \* renderLoop invocations explored by Spec
MaxMarkers == 2         \* getMarker events one process call may dispatch
MaxDriveTicks == 24     \* frames of a drive run (DriveSpec)
MaxRunTicks == 100      \* powered frames of a long run (LongSpec)
MaxCoastTicks == 80     \* unpowered frames that follow a long run (LongSpec)
MaxForwardTicks == 200  \* frames of a forward-only run (ForwardSpec)
MaxGestureFrames == 3   \* render loop calls of the gesture variant
MaxMessages == 3        \* hand-tracking messages delivered
MaxFailures == 3        \* consecutive failed connection attempts counted
MaxStreams == 4         \* streams getUserMedia hands out
MaxClicks == 2          \* refresh clicks and camera selections of the user
MaxPhysicsTicks == 2    \* ticks applied to a car of the grid (PhysicsSpec)

----------------------------------------------------------------------------
(* Fixed-point arithmetic *)

Scale == 100000

Abs(n) == IF n < 0 THEN -n ELSE n

\* Math.sign
Sign(n) == IF n > 0 THEN 1 ELSE IF n < 0 THEN -1 ELSE 0

\* n / d rounded to the nearest integer, halves away from zero
RoundDiv(n, d) ==
    LET a == Abs(n)
        q == a \div d
        r == a % d
        m == IF 2 * r >= d THEN q + 1 ELSE q
    IN  IF n < 0 THEN -m ELSE m

RECURSIVE SqrtSearch(_, _, _)
SqrtSearch(n, lo, hi) ==
    IF lo >= hi THEN lo
    ELSE LET mid == (lo + hi + 1) \div 2
         IN  IF mid * mid <= n THEN SqrtSearch(n, mid, hi)
                               ELSE SqrtSearch(n, lo, mid - 1)

\* Math.sqrt of a non-negative integer below 2^31, to the nearest integer
Sqrt(n) ==
    LET f == SqrtSearch(n, 0, 46340)
    IN  IF n - f * f > f THEN f + 1 ELSE f

\* Math.sin(0.05 k) and Math.cos(0.05 k) in units of 1/Scale, k = 0 .. 199
SinTable ==
   <<
      0, 4998, 9983, 14944, 19867, 24740, 29552, 34290, 38942, 43497,
      47943, 52269, 56464, 60519, 64422, 68164, 71736, 75128, 78333, 81342,
      84147, 86742, 89121, 91276, 93204, 94898, 96356, 97572, 98545, 99271,
      99749, 99978, 99957, 99687, 99166, 98399, 97385, 96128, 94630, 92896,
      90930, 88736, 86321, 83690, 80850, 77807, 74571, 71147, 67546, 63776,
      59847, 55768, 51550, 47203, 42738, 38166, 33499, 28748, 23925, 19042,
      14112, 9146, 4158, -841, -5837, -10820, -15775, -20690, -25554, -30354,
      -35078, -39715, -44252, -48679, -52984, -57156, -61186, -65063, -68777, -72319,
      -75680, -78853, -81828, -84598, -87158, -89499, -91617, -93505, -95160, -96577,
      -97753, -98684, -99369, -99805, -99992, -99929, -99616, -99055, -98245, -97190,
      -95892, -94355, -92581, -90577, -88345, -85893, -83227, -80352, -77276, -74008,
      -70554, -66924, -63127, -59172, -55069, -50828, -46460, -41976, -37388, -32705,
      -27942, -23108, -18216, -13279, -8309, -3318, 1681, 6676, 11655, 16604,
      21512, 26366, 31154, 35864, 40485, 45004, 49411, 53695, 57844, 61849,
      65699, 69384, 72897, 76227, 79367, 82308, 85044, 87567, 89871, 91950,
      93800, 95415, 96792, 97927, 98817, 99460, 99854, 99999, 99894, 99539,
      98936, 98085, 96989, 95651, 94073, 92260, 90217, 87948, 85460, 82758,
      79849, 76740, 73440, 69956, 66297, 62472, 58492, 54365, 50102, 45714,
      41212, 36607, 31910, 27133, 22289, 17389, 12445, 7471, 2478, -2522,
      -7515, -12490, -17433, -22332, -27176, -31952, -36648, -41252, -45754, -50141
   >>

CosTable ==
   <<
      100000, 99875, 99500, 98877, 98007, 96891, 95534, 93937, 92106, 90045,
      87758, 85252, 82534, 79608, 76484, 73169, 69671, 65998, 62161, 58168,
      54030, 49757, 45360, 40849, 36236, 31532, 26750, 21901, 16997, 12050,
      7074, 2079, -2920, -7912, -12884, -17825, -22720, -27559, -32329, -37018,
      -41615, -46107, -50485, -54736, -58850, -62817, -66628, -70271, -73739, -77023,
      -80114, -83005, -85689, -88158, -90407, -92430, -94222, -95779, -97096, -98170,
      -98999, -99581, -99914, -99996, -99829, -99413, -98748, -97836, -96680, -95282,
      -93646, -91775, -89676, -87352, -84810, -82056, -79097, -75940, -72593, -69065,
      -65364, -61500, -57482, -53321, -49026, -44609, -40080, -35451, -30733, -25939,
      -21080, -16168, -11215, -6235, -1239, 3760, 8750, 13718, 18651, 23538,
      28366, 33123, 37798, 42378, 46852, 51209, 55437, 59528, 63469, 67252,
      70867, 74305, 77557, 80615, 83471, 86119, 88552, 90763, 92748, 94501,
      96017, 97294, 98327, 99114, 99654, 99945, 99986, 99777, 99318, 98612,
      97659, 96462, 95023, 93347, 91438, 89301, 86940, 84362, 81573, 78580,
      75390, 72012, 68455, 64726, 60835, 56792, 52608, 48292, 43855, 39308,
      34664, 29932, 25126, 20257, 15337, 10379, 5396, 398, -4600, -9587,
      -14550, -19477, -24354, -29171, -33915, -38575, -43138, -47593, -51929, -56135,
      -60201, -64117, -67872, -71458, -74865, -78085, -81109, -83931, -86544, -88939,
      -91113, -93059, -94772, -96249, -97484, -98477, -99223, -99721, -99969, -99968,
      -99717, -99217, -98469, -97474, -96236, -94758, -93043, -91095, -88919, -86521
   >>

\* Math.sin and Math.cos of a rotation that is a multiple of turnSpeed
TableIndex(rot, step) == Abs(rot) \div step + 1

----------------------------------------------------------------------------
(* carSystem: parameters (units of 1/Scale; friction and brakeForce in percent) *)

acceleration == 1200
maxSpeed == 40000
turnSpeed == 5000
friction == 95
brakeForce == 85
turnDeadzone == 1000

Sin(rot) == Sign(rot) * SinTable[TableIndex(rot, turnSpeed)]
Cos(rot) == CosTable[TableIndex(rot, turnSpeed)]

KeyNames == {"forward", "backward", "left", "right", "brake"}

NoKeys == [k \in KeyNames |-> FALSE]

Vec(x, z) == [x |-> x, z |-> z]

\* v * pct / 100
Scaled(v, pct) == Vec(RoundDiv(v.x * pct, 100), RoundDiv(v.z * pct, 100))

carSystemInitial ==
    [ position |-> Vec(0, 0), velocity |-> Vec(0, 0), rotation |-> 0,
      speed |-> 0, keys |-> NoKeys ]

----------------------------------------------------------------------------
(* updateCarPhysics, step by step *)

\* a variant of InputAcceleration: backward before forward
InputAccelerationBackwardFirst(keys) ==
    IF keys.backward THEN -acceleration
    ELSE IF keys.forward THEN acceleration
    ELSE 0

\* the scalar acceleration chosen from the keys: forward before backward
InputAcceleration(keys) ==
    IF keys.forward THEN acceleration
    ELSE IF keys.backward THEN -acceleration
    ELSE 0

\* braking scales the velocity by brakeForce
ApplyBrake(velocity, keys) ==
    IF keys.brake THEN Scaled(velocity, brakeForce) ELSE velocity

\* a variant of Steer: the dead zone test is dropped
SteerNoDeadzone(rotation, speed, keys) ==
    LET r1 == IF keys.left THEN rotation + turnSpeed * Sign(speed) ELSE rotation
    IN  IF keys.right THEN r1 - turnSpeed * Sign(speed) ELSE r1

\* steering: two independent tests, both on the speed stored by the previous tick
Steer(rotation, speed, keys) ==
    LET r1 == IF keys.left /\ Abs(speed) > turnDeadzone
              THEN rotation + turnSpeed * Sign(speed) ELSE rotation
    IN  IF keys.right /\ Abs(speed) > turnDeadzone
        THEN r1 - turnSpeed * Sign(speed) ELSE r1

\* the acceleration is added along (sin rotation, cos rotation)
ApplyAcceleration(velocity, acc, rotation) ==
    Vec(velocity.x + RoundDiv(acc * Sin(rotation), Scale),
        velocity.z + RoundDiv(acc * Cos(rotation), Scale))

\* variant that leaves the velocity as it is
ApplyFrictionNone(velocity) == velocity

\* variant with a friction factor of 0.97
ApplyFrictionWeak(velocity) == Scaled(velocity, friction + 2)

ApplyFriction(velocity) == Scaled(velocity, friction)

Magnitude(velocity) == Sqrt(velocity.x * velocity.x + velocity.z * velocity.z)

\* a variant of LimitSpeed: the speed carries the sign of the z velocity
LimitSpeedSigned(velocity) ==
    LET s == Magnitude(velocity)
        sgn == IF velocity.z < 0 THEN -1 ELSE 1
    IN  IF s > maxSpeed
        THEN [ velocity |-> Vec(RoundDiv(velocity.x * maxSpeed, s),
                                RoundDiv(velocity.z * maxSpeed, s)),
               speed |-> sgn * maxSpeed ]
        ELSE [ velocity |-> velocity, speed |-> sgn * s ]

\* speed = |velocity|; above maxSpeed the velocity is rescaled by maxSpeed / speed
LimitSpeed(velocity) ==
    LET s == Magnitude(velocity)
    IN  IF s > maxSpeed
        THEN [ velocity |-> Vec(RoundDiv(velocity.x * maxSpeed, s),
                                RoundDiv(velocity.z * maxSpeed, s)),
               speed |-> maxSpeed ]
        ELSE [ velocity |-> velocity, speed |-> s ]

\* variant without the friction and speed-limit block
updateCarPhysicsNoLimit(car) ==
    LET acc == InputAcceleration(car.keys)
        v1 == ApplyBrake(car.velocity, car.keys)
        rot == Steer(car.rotation, car.speed, car.keys)
        v2 == ApplyAcceleration(v1, acc, rot)
        lim == [ velocity |-> v2, speed |-> Magnitude(v2) ]
    IN  [ car EXCEPT !.velocity = lim.velocity,
                     !.rotation = rot,
                     !.speed = lim.speed,
                     !.position = Vec(car.position.x + lim.velocity.x,
                                      car.position.z + lim.velocity.z) ]

\* variant that applies friction before the acceleration
updateCarPhysicsFrictionFirst(car) ==
    LET acc == InputAcceleration(car.keys)
        v1 == ApplyBrake(car.velocity, car.keys)
        rot == Steer(car.rotation, car.speed, car.keys)
        v2 == ApplyFriction(v1)
        v3 == ApplyAcceleration(v2, acc, rot)
        lim == LimitSpeed(v3)
    IN  [ car EXCEPT !.velocity = lim.velocity,
                     !.rotation = rot,
                     !.speed = lim.speed,
                     !.position = Vec(car.position.x + lim.velocity.x,
                                      car.position.z + lim.velocity.z) ]

\* variant that applies friction only while the car is powered
updateCarPhysicsCoastFree(car) ==
    LET acc == InputAcceleration(car.keys)
        v1 == ApplyBrake(car.velocity, car.keys)
        rot == Steer(car.rotation, car.speed, car.keys)
        v2 == ApplyAcceleration(v1, acc, rot)
        v3 == IF acc = 0 THEN v2 ELSE ApplyFriction(v2)
        lim == LimitSpeed(v3)
    IN  [ car EXCEPT !.velocity = lim.velocity,
                     !.rotation = rot,
                     !.speed = lim.speed,
                     !.position = Vec(car.position.x + lim.velocity.x,
                                      car.position.z + lim.velocity.z) ]

\* the physics part of updateCarPhysics: the car after one tick
updateCarPhysics(car) ==
    LET acc == InputAcceleration(car.keys)
        v1 == ApplyBrake(car.velocity, car.keys)
        rot == Steer(car.rotation, car.speed, car.keys)
        v2 == ApplyAcceleration(v1, acc, rot)
        v3 == ApplyFriction(v2)
        lim == LimitSpeed(v3)
    IN  [ car EXCEPT !.velocity = lim.velocity,
                     !.rotation = rot,
                     !.speed = lim.speed,
                     !.position = Vec(car.position.x + lim.velocity.x,
                                      car.position.z + lim.velocity.z) ]

\* updateCarVisualPosition: the 3D model copies position and rotation
updateCarVisualPosition(model, car) ==
    IF model.state # "loaded" THEN model
    ELSE [ state |-> "loaded", x |-> car.position.x, z |-> car.position.z,
           rotY |-> car.rotation ]

----------------------------------------------------------------------------
(* JavaScript values held by a matrix element: a number, undefined or NaN *)

Num(n) == [t |-> "number", v |-> n]
Undefined == [t |-> "undefined", v |-> 0]
NaN == [t |-> "NaN", v |-> 0]

\* unary minus: -undefined is NaN
Neg(x) == IF x.t = "number" THEN Num(-x.v) ELSE NaN

\* m[i] of a JavaScript array (0-based); past the end it is undefined
At(m, i) == IF i < Len(m) THEN Num(m[i + 1]) ELSE Undefined

\* THREE.Matrix4.set(n11, n12, ..., n44): row-major arguments stored into the
\* column-major elements array
Matrix4Set(rows) ==
    [ i \in 1..16 |-> rows[((i - 1) % 4) * 4 + ((i - 1) \div 4) + 1] ]

IdentityElements ==
    [ i \in 1..16 |-> IF (i - 1) % 4 = (i - 1) \div 4 THEN Num(1) ELSE Num(0) ]

\* a variant of fixMatrix: the marker matrix is stored without the axis change
fixMatrixPlain(m) ==
    Matrix4Set(<< At(m, 0), At(m, 4), At(m, 8), At(m, 12),
                  At(m, 1), At(m, 5), At(m, 9), At(m, 13),
                  At(m, 2), At(m, 6), At(m, 10), At(m, 14),
                  At(m, 3), At(m, 7), At(m, 11), At(m, 15) >>)

\* fixMatrix: the elements of three_mat after the call
fixMatrix(m) ==
    Matrix4Set(<< At(m, 0), At(m, 8), Neg(At(m, 4)), At(m, 12),
                  At(m, 1), At(m, 9), Neg(At(m, 5)), At(m, 13),
                  At(m, 2), At(m, 10), Neg(At(m, 6)), At(m, 14),
                  At(m, 3), At(m, 11), Neg(At(m, 7)), At(m, 15) >>)

\* Vector3.setFromMatrixPosition: elements 12, 13, 14
MatrixPosition(e) == << e[13], e[14], e[15] >>

----------------------------------------------------------------------------
(* arSystem *)

arSystemInitial ==
    [ markerDetected |-> FALSE,
      lastDetectionTime |-> 0,
      planeMatrix |-> IdentityElements,
      planePosition |-> << Num(0), Num(0), Num(0) >>,
      initialized |-> FALSE,
      planeEstablished |-> FALSE,
      searchingForMarker |-> TRUE ]

\* the text and class of the #marker-status element; id is the marker id the
\* text quotes, NoMarker when it quotes none
NoMarker == -1

Status(text, id, class) == [text |-> text, id |-> id, class |-> class]

StatusInitial == Status("", NoMarker, "")
StatusSearching == Status("Searching...", NoMarker, "status-warning")
StatusSearchingForMarker == Status("Searching for Marker...", NoMarker, "status-warning")
StatusPlaneSet(id) == Status("Plane Set - Marker Removed", id, "status-good")
StatusPlaneActive == Status("Plane Active (Marker Removed)", NoMarker, "status-good")
StatusDisabled == Status("AR Disabled (Files Missing)", NoMarker, "status-error")

\* a getMarker event: event.data.marker.idMatrix and event.data.matrixGL_RH
\* (present or not; when present, a JavaScript array of numbers)
MarkerEvent(id, present, arr) == [id |-> id, present |-> present, matrix |-> arr]

\* updatePlaneReference: arSystem after the call
updatePlaneReference(ar, m) ==
    LET e == fixMatrix(m)
    IN  [ ar EXCEPT !.planeMatrix = e,
                    !.planePosition = MatrixPosition(e),
                    !.initialized = TRUE ]

\* what one run of handleMarkerDetection leaves: arSystem, the marker status,
\* whether planeMatrix was written and whether an exception left the handler
Handled(ar, status, wrote, threw) ==
    [ar |-> ar, status |-> status, wrote |-> wrote, threw |-> threw]

\* the body of the if in handleMarkerDetection; reading m[0] of a missing
\* matrix raises a TypeError inside fixMatrix, before anything is written
EstablishPlane(ar, status, ev, now) ==
    IF ~ev.present THEN Handled(ar, status, FALSE, TRUE)
    ELSE Handled([ updatePlaneReference(ar, ev.matrix) EXCEPT
                     !.markerDetected = TRUE,
                     !.lastDetectionTime = now,
                     !.planeEstablished = TRUE,
                     !.searchingForMarker = FALSE ],
                 StatusPlaneSet(ev.id), TRUE, FALSE)

\* a variant of handleMarkerDetection: the searchingForMarker test is dropped
handleMarkerDetectionAlways(ar, status, ev, now) ==
    IF ev.id # -1
    THEN EstablishPlane(ar, status, ev, now)
    ELSE Handled(ar, status, FALSE, FALSE)

\* a variant of handleMarkerDetection: the marker id is not tested
handleMarkerDetectionAnyId(ar, status, ev, now) ==
    IF ar.searchingForMarker
    THEN EstablishPlane(ar, status, ev, now)
    ELSE Handled(ar, status, FALSE, FALSE)

handleMarkerDetection(ar, status, ev, now) ==
    IF ev.id # -1 /\ ar.searchingForMarker
    THEN EstablishPlane(ar, status, ev, now)
    ELSE Handled(ar, status, FALSE, FALSE)

\* resetCarPosition: the car part (the keys are left as they are)
resetCar(car) ==
    [ car EXCEPT !.position = Vec(0, 0), !.velocity = Vec(0, 0),
                 !.rotation = 0, !.speed = 0 ]

\* a variant of resetAR: searchingForMarker is left as it is
resetARNoSearch(ar) ==
    [ ar EXCEPT !.planeEstablished = FALSE,
                !.markerDetected = FALSE,
                !.initialized = FALSE ]

\* resetCarPosition: the AR part
resetAR(ar) ==
    [ ar EXCEPT !.planeEstablished = FALSE,
                !.searchingForMarker = TRUE,
                !.markerDetected = FALSE,
                !.initialized = FALSE ]

\* setupFallbackCamera: the AR part
setupFallbackCamera(ar) ==
    [ ar EXCEPT !.initialized = TRUE, !.markerDetected = FALSE ]

\* updateUI: the marker status after the call
updateUI(ar, loaded, status) ==
    IF ar.planeEstablished THEN StatusPlaneActive
    ELSE IF ar.searchingForMarker THEN StatusSearchingForMarker
    ELSE IF ~loaded THEN StatusDisabled
    ELSE status

\* a variant of updateContainerTransform: the container is always shown
updateContainerTransformShown(c, ar, loaded) ==
    [ c EXCEPT !.visible = TRUE, !.matrix = ar.planeMatrix ]

\* updateContainerTransform: the container after the call
updateContainerTransform(c, ar, loaded) ==
    IF ar.planeEstablished \/ (~loaded /\ ar.initialized)
    THEN [ c EXCEPT !.visible = TRUE, !.matrix = ar.planeMatrix ]
    ELSE [ c EXCEPT !.visible = FALSE ]

----------------------------------------------------------------------------
(* Inputs *)

\* 4x4 poses in column-major order, as ARToolKit's matrixGL_RH gives them
IdentityPose == << 1, 0, 0, 0,  0, 1, 0, 0,  0, 0, 1, 0,  0, 0, 0, 1 >>
TiltedPose == << 11, 21, 31, 41,  12, 22, 32, 42,  13, 23, 33, 43,  14, 24, 34, 44 >>
EmptyPose == << >>
ShortPose == << 5, 6, 7 >>

ValidPoses == { IdentityPose, TiltedPose }
MalformedPoses == { EmptyPose, ShortPose }

\* marker ids: the sentinel -1 and two valid bar-code ids
MarkerIds == { -1, 0, 7 }

MarkerEvents ==
    { MarkerEvent(id, TRUE, p) : id \in MarkerIds, p \in ValidPoses \cup MalformedPoses }
    \cup { MarkerEvent(id, FALSE, << >>) : id \in MarkerIds }

NoEvent == MarkerEvent(-1, FALSE, << >>)

\* event.code of the keys the listeners know, and one they do not
keyMap == [ KeyW |-> "forward", KeyS |-> "backward", KeyA |-> "left",
            KeyD |-> "right", Space |-> "brake" ]
Codes == DOMAIN keyMap \cup { "KeyR", "KeyG", "KeyX" }

\* the keys Spec presses: one throttle key, one steering key and the rest
SpecCodes == { "KeyW", "KeyA", "KeyR", "KeyG", "KeyX" }

\* a driving key leaves its trace in carSystem.keys; the others are recorded
SystemCode(code) == IF code \in DOMAIN keyMap THEN "" ELSE code

\* time in units of 1/3 ms
processingInterval == 100
FrameInterval == 50
FrameGaps == { FrameInterval, 2 * FrameInterval }

\* the record kept in last: the handler, its input, whether an exception left
\* it and, for a handler that runs updateCarPhysics, the car's speed and
\* rotation when it began
Ran(op, code, ev, threw) ==
    [ op |-> op, code |-> code, ev |-> ev, threw |-> threw,
      speed0 |-> 0, rotation0 |-> 0 ]

RanFrame(op, ev, threw) ==
    [ op |-> op, code |-> "", ev |-> ev, threw |-> threw,
      speed0 |-> carSystem.speed, rotation0 |-> carSystem.rotation ]

----------------------------------------------------------------------------
(* The gesture variant: the GhostWheelAR object *)

\* Numbers: angles in millidegrees, confidence in percent, rotation and
\* position in units of 1/Scale, time in ms.

carSpeed == 200
steeringSmoothing == 10
ConfidenceThreshold == 70
MarkerTimeout == 200
ReconnectDelay == 3000

\* the object the constructor leaves, with init suspended in setupVideo.
\* stage: the await init is suspended at ("setupVideo", "setupJSARToolKit",
\* "loadCarModel"), "initialized" once init has finished, "failed" once its
\* catch has run.  websocket: "none", "connecting", "open", "retrying" (closed,
\* the reconnect timer pending) or "threw" (the constructor threw).
\* retryIn: ms left on the reconnect timer; failures: consecutive failed
\* connection attempts; serverUp: the hand-tracking server accepts connections.
gestureInitial ==
    [ stage |-> "setupVideo",
      rendering |-> FALSE,
      containerVisible |-> FALSE,
      containerMatrix |-> IdentityElements,
      car |-> "none",
      carPosition |-> Vec(0, 0),
      carRotation |-> 0,
      carObject |-> [x |-> 0, z |-> 0, rotY |-> 0],
      arLoaded |-> FALSE,
      lastMarkerTime |-> 0,
      markerVisible |-> FALSE,
      websocket |-> "none",
      handTrackingConnected |-> FALSE,
      currentSteeringAngle |-> 0,
      handConfidence |-> 0,
      smoothedSteering |-> 0,
      now |-> 0,
      frames |-> 0,
      messages |-> 0,
      retryIn |-> 0,
      failures |-> 0,
      serverUp |-> FALSE,
      stream |-> "none" ]         \* the stream of video.srcObject: "none" | "running"

\* the gesture page is not open
GestureOff == [gestureInitial EXCEPT !.stage = "off"]

\* x || 0
OrZero(x) == IF x.t = "number" THEN x.v ELSE 0

\* Math.sin and Math.cos of a small rotation x: x - x^3/6 and 1 - x^2/2
SinSmall(x) == x - RoundDiv(RoundDiv(x * x, Scale) * x, 6 * Scale)
CosSmall(x) == Scale - RoundDiv(x * x, 2 * Scale)

\* THREE.MathUtils.lerp(x, y, t), t in percent
Lerp(x, y, t) == x + RoundDiv((y - x) * t, 100)

\* a variant of ConfidentEnough: the threshold itself is enough
ConfidentEnoughInclusive(confidence) == confidence >= ConfidenceThreshold

\* the confidence test of handleHandTrackingData
ConfidentEnough(confidence) == confidence > ConfidenceThreshold

\* updateCarMovement: degToRad(smoothedSteering) * 0.02 is
\* smoothedSteering [mdeg] * 349 / 10000 in units of 1/Scale rad
updateCarMovement(g) ==
    LET rot == g.carRotation + RoundDiv(g.smoothedSteering * 349, 10000)
        x == g.carPosition.x + RoundDiv(SinSmall(rot) * carSpeed, Scale)
        z == g.carPosition.z + RoundDiv(CosSmall(rot) * carSpeed, Scale)
    IN  [ g EXCEPT !.carRotation = rot,
                   !.carPosition = Vec(x, z),
                   !.carObject = IF g.car # "none"
                                 THEN [x |-> x, z |-> z, rotY |-> rot]
                                 ELSE g.carObject ]

\* handleHandTrackingData(data)
handleHandTrackingData(g, data) ==
    LET g1 == [ g EXCEPT !.currentSteeringAngle = OrZero(data.steering_angle),
                         !.handConfidence = OrZero(data.confidence) ]
        g2 == [ g1 EXCEPT !.smoothedSteering =
                  Lerp(g.smoothedSteering, g1.currentSteeringAngle, steeringSmoothing) ]
    IN  IF ConfidentEnough(g2.handConfidence) /\ g2.car # "none" /\ g2.markerVisible
        THEN updateCarMovement(g2)
        ELSE g2

\* the gesture variant's handleMarkerDetection at time now; reading
\* jsarMatrix[0] of a missing matrix raises a TypeError before anything is set
gestureMarkerDetection(g, ev, now) ==
    IF ev.id = -1 THEN [g |-> g, threw |-> FALSE]
    ELSE IF ~ev.present THEN [g |-> g, threw |-> TRUE]
    ELSE [ g |-> [ g EXCEPT !.containerMatrix = fixMatrix(ev.matrix),
                            !.containerVisible = TRUE,
                            !.lastMarkerTime = now,
                            !.markerVisible = TRUE ],
           threw |-> FALSE ]

\* the marker visibility timeout of the render loop
markerTimeout(g, now) ==
    IF now - g.lastMarkerTime > MarkerTimeout
    THEN [ g EXCEPT !.containerVisible = FALSE, !.markerVisible = FALSE ]
    ELSE g

\* one call of the render loop at time now, the recognizer dispatching ev (or
\* nothing, NoEvent): an exception of the marker handler ends the call
gestureRenderLoop(g, ev, now) ==
    LET g0 == [ g EXCEPT !.now = now, !.frames = g.frames + 1 ]
        h == IF g.arLoaded /\ ev # NoEvent
             THEN gestureMarkerDetection(g0, ev, now)
             ELSE [g |-> g0, threw |-> FALSE]
    IN  [ g |-> IF h.threw THEN h.g ELSE markerTimeout(h.g, now),
          threw |-> h.threw ]

\* setupWebSocket: the constructor gives a connecting socket, or throws
setupWebSocket(g, throws) ==
    [ g EXCEPT !.websocket = IF throws THEN "threw" ELSE "connecting" ]


----------------------------------------------------------------------------
(* The camera layer of the keyboard variant: fields *)

\* the module-level currentStream (0: null), isProcessingStarted and
\* isEnumerating; the streams getUserMedia has handed out are 1..acquired, of
\* which `running` have a live track; the position of the one
\* enumerateAndPopulateCameras call past its entry test and of the
\* startCameraStream calls of the change handler and of the auto-start; the
\* timers that are set; autoStart tells the two copies of
\* enumerateAndPopulateCameras apart (lines 255-303 and 1370-1424)
camInitial(auto) ==
    [ autoStart |-> auto,
      currentStream |-> 0,
      isProcessingStarted |-> FALSE,
      isEnumerating |-> FALSE,
      acquired |-> 0,
      running |-> {},
      cameras |-> 0,
      enumerate |-> "idle",       \* "idle" | "temp" | "devices" | "autostart"
      enumerateBy |-> "none",     \* "none" | "initial" | "refresh"
      changeCall |-> "idle",      \* "idle" | "main" | "fallback"
      autoCall |-> "idle",        \* "idle" | "main" | "fallback"
      initialTimer |-> TRUE,      \* setTimeout(enumerateAndPopulateCameras, 500)
      refreshTimer |-> FALSE,     \* the debounce timer of the refresh button
      changeTimer |-> FALSE,      \* the debounce timer of the camera select
      selectDisabled |-> FALSE,
      refreshDisabled |-> FALSE,
      metadataDue |-> FALSE,      \* the video element is loading a new source
      startTimers |-> 0,          \* pending timers of start_processing
      changeWaits |-> 0,          \* start timers due before the change timer
      refreshWaits |-> 0,         \* start timers due before the refresh timer
      refreshAfterChange |-> FALSE,   \* the change timer is due before the refresh timer
      starts |-> 0,               \* calls of start_processing
      enumerations |-> 0,         \* enumerateAndPopulateCameras calls past the entry test
      clicks |-> 0,               \* user inputs so far
      torndown |-> FALSE ]        \* beforeunload or pagehide has fired

\* the camera layer is not followed
CamOff == [ camInitial(FALSE) EXCEPT !.initialTimer = FALSE ]

----------------------------------------------------------------------------
(* The state after the module's top-level code *)

InitAll(v, g, c, ran) ==
    /\ carSystem = carSystemInitial
    /\ arSystem = arSystemInitial
    /\ arLoaded = FALSE
    /\ arController = "none"
    /\ container = [created |-> FALSE, visible |-> TRUE, matrix |-> IdentityElements]
    /\ carModel = [state |-> "none", x |-> 0, z |-> 0, rotY |-> 0]
    /\ gridVisible = TRUE
    /\ markerStatus = StatusInitial
    /\ camera = "none"
    /\ keyboard = FALSE
    /\ lastProcessTime = 0
    /\ clock = 0
    /\ pc = "idle"
    /\ frames = 0
    /\ dispatched = 0
    /\ segments = 0
    /\ segFrames = 0
    /\ keysAtFrame = NoKeys
    /\ anchorWrites = 0
    /\ invokedAt = -1
    /\ video = v
    /\ gesture = g
    /\ cam = c
    /\ last = ran

InitWith(v, g, ran) == InitAll(v, g, CamOff, ran)

\* the keyboard page has loaded
Init == InitWith("unloaded", GestureOff, Ran("load", "", NoEvent, FALSE))

\* the gesture page has loaded and new GhostWheelAR() has run
GestureInit == InitWith("off", gestureInitial, Ran("load", "", NoEvent, FALSE))

\* the state start_processing leaves while the ARController it created is still
\* loading, once the car model has loaded: the car is driven, the marker is not
\* searched for yet
DriveState(car, ran) ==
    /\ carSystem = car
    /\ arSystem = arSystemInitial
    /\ arLoaded = FALSE
    /\ arController = "loading"
    /\ container = updateContainerTransform(
                      [created |-> TRUE, visible |-> TRUE, matrix |-> IdentityElements],
                      arSystemInitial, FALSE)
    /\ carModel = [state |-> "loaded", x |-> 0, z |-> 0, rotY |-> 0]
    /\ gridVisible = TRUE
    /\ markerStatus = updateUI(arSystemInitial, FALSE, StatusInitial)
    /\ camera = "generic"
    /\ keyboard = TRUE
    /\ lastProcessTime = 0
    /\ clock = 0
    /\ pc = "idle"
    /\ frames = 1
    /\ dispatched = 0
    /\ segments = 0
    /\ segFrames = 0
    /\ keysAtFrame = NoKeys
    /\ anchorWrites = 0
    /\ invokedAt = -1
    /\ video = "processing"
    /\ gesture = GestureOff
    /\ cam = CamOff
    /\ last = ran

DriveInit ==
    DriveState(updateCarPhysics(carSystemInitial),
               Ran("loadCarModel", "gltf", NoEvent, FALSE))

----------------------------------------------------------------------------
(* renderLoop *)

\* renderLoop from updateCarPhysics on, run with arSystem = ar and the marker
\* status st: updateCarPhysics (physics, updateCarVisualPosition, updateUI),
\* then updateContainerTransform
FrameBody(ar, st, loaded) ==
    /\ carSystem' = updateCarPhysics(carSystem)
    /\ carModel' = IF carModel.state = "loaded" /\ ar.initialized
                   THEN updateCarVisualPosition(carModel, carSystem')
                   ELSE carModel
    /\ markerStatus' = updateUI(ar, loaded, st)
    /\ container' = updateContainerTransform(container, ar, loaded)

\* a variant of shouldProcessAR: the two phase flags are not tested
shouldProcessARAnyPhase(currentTime) ==
    /\ arLoaded
    /\ arController # "none"
    /\ currentTime - lastProcessTime >= processingInterval

\* the test that guards arController.process
shouldProcessAR(currentTime) ==
    /\ arLoaded
    /\ arController # "none"
    /\ arSystem.searchingForMarker
    /\ ~arSystem.planeEstablished
    /\ currentTime - lastProcessTime >= processingInterval

\* an animation frame calls renderLoop(currentTime): either it enters
\* arController.process, or it skips recognition and runs to its end
RenderLoop(dt) ==
    /\ pc = "idle"
    /\ container.created
    /\ clock' = clock + dt
    /\ frames' = frames + 1
    /\ IF shouldProcessAR(clock + dt)
       THEN /\ pc' = "process"
            /\ dispatched' = 0
            /\ invokedAt' = clock + dt
            /\ last' = Ran("renderLoop:process", "", NoEvent, FALSE)
            /\ UNCHANGED << carSystem, carModel, markerStatus, container >>
       ELSE /\ FrameBody(arSystem, markerStatus, arLoaded)
            /\ last' = RanFrame("renderLoop", NoEvent, FALSE)
            /\ UNCHANGED << pc, dispatched, invokedAt >>
    /\ UNCHANGED << arSystem, arLoaded, arController, gridVisible, camera,
                    keyboard, lastProcessTime, anchorWrites, video, gesture, cam >>

Frame(dt) ==
    /\ frames < MaxFrames
    /\ RenderLoop(dt)
    /\ UNCHANGED << segments, segFrames, keysAtFrame >>

\* arController.process dispatches a getMarker event to handleMarkerDetection.
\* An exception of the handler leaves process and is caught by renderLoop, which
\* skips the lastProcessTime update and goes on with the frame.
GetMarker(ev) ==
    /\ pc = "process"
    /\ dispatched < MaxMarkers
    /\ LET h == handleMarkerDetection(arSystem, markerStatus, ev, clock)
       IN  /\ arSystem' = h.ar
           /\ anchorWrites' = IF h.wrote THEN anchorWrites + 1 ELSE anchorWrites
           /\ last' = IF h.threw THEN RanFrame("getMarker", ev, TRUE)
                               ELSE Ran("getMarker", "", ev, FALSE)
           /\ IF h.threw
              THEN /\ FrameBody(h.ar, h.status, arLoaded)
                   /\ pc' = "idle"
                   /\ dispatched' = 0
              ELSE /\ markerStatus' = h.status
                   /\ dispatched' = dispatched + 1
                   /\ UNCHANGED << pc, carSystem, carModel, container >>
    /\ UNCHANGED << arLoaded, arController, gridVisible, camera, keyboard,
                    lastProcessTime, clock, frames, segments, segFrames,
                    keysAtFrame, invokedAt, video, gesture, cam >>

\* arController.process returns: lastProcessTime = currentTime, then the rest
\* of the frame
ProcessReturn ==
    /\ pc = "process"
    /\ lastProcessTime' = clock
    /\ FrameBody(arSystem, markerStatus, arLoaded)
    /\ pc' = "idle"
    /\ dispatched' = 0
    /\ last' = RanFrame("renderLoop:processed", NoEvent, FALSE)
    /\ UNCHANGED << arSystem, arLoaded, arController, gridVisible, camera,
                    keyboard, clock, frames, segments, segFrames, keysAtFrame,
                    anchorWrites, invokedAt, video, gesture, cam >>

----------------------------------------------------------------------------
(* Camera acquisition of the keyboard variant *)

\* "off": the keyboard page is not open; "unloaded": before window.onload;
\* "enumerating": enumerateAndPopulateCameras is running; "denied" / "nocameras" / "listed": how it ended; "stream": a
\* camera stream is the video's source; "file": marker.webm is; "nofile":
\* marker.webm did not load; "metadata": loadedmetadata has fired and the timer
\* of start_processing is pending; "processing": start_processing has run
VideoStates == { "off", "unloaded", "enumerating", "denied", "nocameras",
                 "listed", "stream", "file", "nofile", "metadata", "processing",
                 "detail" }

\* every variable of the keyboard variant but video and last
pageVars == << carSystem, arSystem, arLoaded, arController, container, carModel,
               gridVisible, markerStatus, camera, keyboard, lastProcessTime,
               clock, pc, frames, dispatched, segments, segFrames, keysAtFrame,
               anchorWrites, invokedAt >>

\* window.onload: checkRequiredFiles resolves or rejects, and either way
\* initializeCameraSelection runs and starts the enumeration of the cameras
WindowOnload(filesFound) ==
    /\ video = "unloaded"
    /\ video' = "enumerating"
    /\ last' = Ran("window.onload", IF filesFound THEN "found" ELSE "missing",
                   NoEvent, FALSE)
    /\ UNCHANGED << pageVars, gesture, cam >>

\* enumerateAndPopulateCameras ends: getUserMedia was refused ("denied"), no
\* video input exists ("nocameras") or the cameras are listed ("listed")
EnumerateCameras(outcome) ==
    /\ video = "enumerating"
    /\ video' = outcome
    /\ last' = Ran("enumerateAndPopulateCameras", outcome, NoEvent, FALSE)
    /\ UNCHANGED << pageVars, gesture, cam >>

\* the Refresh button, before any camera has been started
RefreshCameras ==
    /\ video \in { "denied", "nocameras", "listed" }
    /\ video' = "enumerating"
    /\ last' = Ran("refresh", "", NoEvent, FALSE)
    /\ UNCHANGED << pageVars, gesture, cam >>

\* a camera is chosen and startCameraStream runs: getUserMedia gives a stream,
\* with the first or with the fallback constraints ("stream"), or both
\* requests fail and marker.webm becomes the video's source ("file")
StartCameraStream(outcome) ==
    /\ video \in { "listed", "nofile" }
    /\ video' = outcome
    /\ last' = Ran("startCameraStream", outcome, NoEvent, FALSE)
    /\ UNCHANGED << pageVars, gesture, cam >>

\* the video element has its metadata (a stream always gets there, the file
\* only if it exists): the timer that calls start_processing is set
VideoLoaded(ok) ==
    /\ video \in { "stream", "file" }
    /\ ok \/ video = "file"
    /\ video' = IF ok THEN "metadata" ELSE "nofile"
    /\ last' = Ran("video.onloadedmetadata", IF ok THEN video ELSE "error",
                   NoEvent, FALSE)
    /\ UNCHANGED << pageVars, gesture, cam >>

----------------------------------------------------------------------------
(* start_processing and the callbacks it installs *)

\* start_processing: setupThreeJS, setupARTracking, setupKeyboardControls and
\* the first renderLoop() call, whose currentTime is undefined, so that its
\* interval test is false.  arOutcome: "missing" (ARController is undefined),
\* "throws" (new ARController throws) or "created".
start_processing(arOutcome) ==
    /\ pc = "idle"
    /\ video' = "processing"
    /\ LET fallback == arOutcome # "created"
           ar == IF fallback THEN setupFallbackCamera(arSystem) ELSE arSystem
           st == IF fallback THEN StatusDisabled ELSE markerStatus
           c == [created |-> TRUE, visible |-> TRUE, matrix |-> IdentityElements]
       IN  /\ arSystem' = ar
           /\ camera' = IF fallback THEN "perspective" ELSE "generic"
           /\ arController' = IF fallback THEN "none" ELSE "loading"
           /\ keyboard' = TRUE
           /\ carSystem' = updateCarPhysics(carSystem)
           /\ carModel' = [carModel EXCEPT !.state = "loading"]
           /\ markerStatus' = updateUI(ar, arLoaded, st)
           /\ container' = updateContainerTransform(c, ar, arLoaded)
    /\ gridVisible' = TRUE
    /\ frames' = frames + 1
    /\ last' = Ran("start_processing", arOutcome, NoEvent, FALSE)
    /\ UNCHANGED << arLoaded, lastProcessTime, clock, pc, dispatched, segments,
                    segFrames, keysAtFrame, anchorWrites, invokedAt, gesture >>

\* the timer set by video.onloadedmetadata fires, once in a page whose camera
\* acquisition goes through without overlap
StartProcessing(arOutcome) ==
    /\ video = "metadata"
    /\ ~container.created
    /\ start_processing(arOutcome)
    /\ UNCHANGED cam

\* the GLTF loader calls back: the model (or, on error, the fallback car built by
\* createFallbackCar) becomes carModel, at the origin of the container
CarModelLoaded(ok) ==
    /\ pc = "idle"
    /\ carModel.state = "loading"
    /\ carModel' = [state |-> "loaded", x |-> 0, z |-> 0, rotY |-> 0]
    /\ last' = Ran("loadCarModel", IF ok THEN "gltf" ELSE "fallback", NoEvent, FALSE)
    /\ UNCHANGED << carSystem, arSystem, arLoaded, arController, container,
                    gridVisible, markerStatus, camera, keyboard, lastProcessTime,
                    clock, pc, frames, dispatched, segments, segFrames,
                    keysAtFrame, anchorWrites, invokedAt, video, gesture, cam >>

\* arController.onload: with a 16-element camera matrix AR is ready, otherwise
\* (or when the set-up throws) the fallback camera is installed
ARControllerOnload(cameraMatrixValid) ==
    /\ pc = "idle"
    /\ arController = "loading"
    /\ arController' = "loaded"
    /\ IF cameraMatrixValid
       THEN /\ arLoaded' = TRUE
            /\ camera' = "ar"
            /\ markerStatus' = StatusSearching
            /\ UNCHANGED arSystem
       ELSE /\ arSystem' = setupFallbackCamera(arSystem)
            /\ camera' = "perspective"
            /\ markerStatus' = StatusDisabled
            /\ UNCHANGED arLoaded
    /\ last' = Ran("arController.onload", IF cameraMatrixValid THEN "valid" ELSE "invalid",
                   NoEvent, FALSE)
    /\ UNCHANGED << carSystem, container, carModel, gridVisible, keyboard,
                    lastProcessTime, clock, pc, frames, dispatched, segments,
                    segFrames, keysAtFrame, anchorWrites, invokedAt, video, gesture, cam >>

\* arController.onerror
ARControllerOnerror ==
    /\ pc = "idle"
    /\ arController = "loading"
    /\ arController' = "error"
    /\ arSystem' = setupFallbackCamera(arSystem)
    /\ camera' = "perspective"
    /\ markerStatus' = StatusDisabled
    /\ last' = Ran("arController.onerror", "", NoEvent, FALSE)
    /\ UNCHANGED << carSystem, arLoaded, container, carModel, gridVisible,
                    keyboard, lastProcessTime, clock, pc, frames, dispatched,
                    segments, segFrames, keysAtFrame, anchorWrites, invokedAt, video, gesture, cam >>

----------------------------------------------------------------------------
(* Keyboard *)

\* the keydown listener: a mapped key is held; R resets; G toggles the grid
KeyDown(code) ==
    /\ pc = "idle"
    /\ keyboard
    /\ carSystem' =
         IF code \in DOMAIN keyMap
         THEN [carSystem EXCEPT !.keys[keyMap[code]] = TRUE]
         ELSE IF code = "KeyR" THEN resetCar(carSystem)
         ELSE carSystem
    /\ arSystem' = IF code = "KeyR" THEN resetAR(arSystem) ELSE arSystem
    /\ markerStatus' = IF code = "KeyR" THEN StatusSearchingForMarker ELSE markerStatus
    /\ anchorWrites' = IF code = "KeyR" THEN 0 ELSE anchorWrites
    /\ gridVisible' = IF code = "KeyG" THEN ~gridVisible ELSE gridVisible
    /\ last' = Ran("keydown", SystemCode(code), NoEvent, FALSE)
    /\ UNCHANGED << arLoaded, arController, container, carModel, camera,
                    keyboard, lastProcessTime, clock, pc, frames, dispatched,
                    segments, segFrames, keysAtFrame, invokedAt, video, gesture, cam >>

\* the keyup listener: a mapped key is released
KeyUp(code) ==
    /\ pc = "idle"
    /\ keyboard
    /\ carSystem' =
         IF code \in DOMAIN keyMap
         THEN [carSystem EXCEPT !.keys[keyMap[code]] = FALSE]
         ELSE carSystem
    /\ last' = Ran("keyup", SystemCode(code), NoEvent, FALSE)
    /\ UNCHANGED << arSystem, arLoaded, arController, container, carModel,
                    gridVisible, markerStatus, camera, keyboard, lastProcessTime,
                    clock, pc, frames, dispatched, segments, segFrames,
                    keysAtFrame, anchorWrites, invokedAt, video, gesture, cam >>

----------------------------------------------------------------------------
(* The program: every interleaving of its handlers *)

Next ==
    \/ \E found \in BOOLEAN : WindowOnload(found)
    \/ \E o \in {"denied", "nocameras", "listed"} : EnumerateCameras(o)
    \/ RefreshCameras
    \/ \E o \in {"stream", "file"} : StartCameraStream(o)
    \/ \E ok \in BOOLEAN : VideoLoaded(ok)
    \/ \E o \in {"missing", "throws", "created"} : StartProcessing(o)
    \/ \E ok \in BOOLEAN : CarModelLoaded(ok)
    \/ \E v \in BOOLEAN : ARControllerOnload(v)
    \/ ARControllerOnerror
    \/ \E code \in SpecCodes : KeyDown(code)
    \/ \E code \in SpecCodes : KeyUp(code)
    \/ \E dt \in FrameGaps : Frame(dt)
    \/ \E ev \in MarkerEvents : GetMarker(ev)
    \/ ProcessReturn

Spec == Init /\ [][Next]_vars

----------------------------------------------------------------------------
(* Drive runs: the car driven by keyboard.  A run is a first stretch of frames *)
(* under one key combination and a second stretch under another; segments     *)
(* counts the stretches begun, segFrames the frames of the current one.       *)

\* the frame begins a new stretch: the first frame, or the keys have changed
NewStretch == segments = 0 \/ carSystem.keys # keysAtFrame

DriveRenderLoop ==
    /\ RenderLoop(FrameInterval)
    /\ keysAtFrame' = carSystem.keys
    /\ segments' = IF NewStretch THEN segments + 1 ELSE segments
    /\ segFrames' = IF NewStretch THEN 1 ELSE segFrames + 1

\* DriveSpec: any combination, then any combination, then possibly R
DriveFrame ==
    /\ frames < MaxDriveTicks
    /\ NewStretch => segments < 2
    /\ DriveRenderLoop

DriveKey ==
    /\ segments < 2
    /\ \E code \in DOMAIN keyMap : KeyDown(code) \/ KeyUp(code)

DriveReset ==
    /\ segments = 2
    /\ KeyDown("KeyR")

DriveNext == DriveFrame \/ DriveKey \/ DriveReset

DriveSpec == DriveInit /\ [][DriveNext]_vars

\* LongSpec: any combination held for up to MaxRunTicks frames, then every key
\* released and the car left to coast for up to MaxCoastTicks frames
LongFrame ==
    /\ IF NewStretch
       THEN segments = 0 \/ (segments = 1 /\ carSystem.keys = NoKeys)
       ELSE segFrames < (IF segments = 1 THEN MaxRunTicks ELSE MaxCoastTicks)
    /\ DriveRenderLoop

LongKey ==
    /\ segments < 2
    /\ \E code \in DOMAIN keyMap : KeyDown(code) \/ KeyUp(code)

LongNext == LongFrame \/ LongKey

LongSpec == DriveInit /\ [][LongNext]_vars

\* ForwardSpec: W has been pressed with the car at rest and stays held;
\* requestAnimationFrame keeps calling renderLoop while the page is shown
ForwardOnly == [NoKeys EXCEPT !.forward = TRUE]

ForwardInit ==
    DriveState([updateCarPhysics(carSystemInitial) EXCEPT !.keys = ForwardOnly],
               Ran("keydown", "", NoEvent, FALSE))

ForwardFrame ==
    /\ carSystem.keys = ForwardOnly
    /\ segFrames < MaxForwardTicks
    /\ DriveRenderLoop

ForwardNext == ForwardFrame

ForwardSpec == ForwardInit /\ [][ForwardNext]_vars /\ WF_vars(ForwardFrame)

\* PhysicsSpec: updateCarPhysics as a function of the car.  The car is drawn
\* from a grid that reaches every branch of the function, the rescaling to
\* maxSpeed included, with carSystem.speed the magnitude of the velocity as
\* every tick leaves it; two ticks are applied.
AllKeys == [KeyNames -> BOOLEAN]

PhysicsVelocities == { -32000, -700, 0, 700, 20000, 32000 }

PhysicsRotations == { -turnSpeed, 0, 2 * turnSpeed }

PhysicsCars ==
    { [ position |-> Vec(0, 0), velocity |-> Vec(vx, vz), rotation |-> r,
        speed |-> Magnitude(Vec(vx, vz)), keys |-> k ] :
        vx \in PhysicsVelocities, vz \in PhysicsVelocities,
        r \in PhysicsRotations, k \in AllKeys }

PhysicsInit ==
    \E car \in PhysicsCars : DriveState(car, Ran("keydown", "", NoEvent, FALSE))

PhysicsFrame ==
    /\ frames < 1 + MaxPhysicsTicks
    /\ DriveRenderLoop

PhysicsNext == PhysicsFrame

PhysicsSpec == PhysicsInit /\ [][PhysicsNext]_vars

----------------------------------------------------------------------------
(* The gesture variant: init, the render loop, the hand-tracking socket *)

\* what the recognizer dispatches in a render loop call
GestureMarkerEvents ==
    { NoEvent, MarkerEvent(-1, TRUE, IdentityPose), MarkerEvent(7, TRUE, IdentityPose),
      MarkerEvent(7, FALSE, << >>) }

\* parsed messages of the socket: steering_angle and confidence, present or not
HandMessages ==
    { [steering_angle |-> a, confidence |-> c] :
        a \in { Undefined, Num(45000) }, c \in { Undefined, Num(70), Num(71) } }

\* ms between two render loop calls: a regular frame, and a stalled one
GestureFrameGaps == { 17, 250 }

\* a step of the gesture page
GStep(g, ran) ==
    /\ gesture' = g
    /\ last' = ran
    /\ UNCHANGED << pageVars, video, cam >>

\* a variant of GSetupVideo: init starts the render loop as soon as the camera
\* is there, before the recognizer and the car model are loaded
GSetupVideoThenRender(ok, ar) ==
    /\ gesture.stage = "setupVideo"
    /\ GStep([ gesture EXCEPT !.stage = IF ok /\ ar = "created"
                                        THEN "setupJSARToolKit" ELSE "failed",
                              !.stream = IF ok THEN "running" ELSE @,
                              !.rendering = ok ],
             Ran("gesture.setupVideo", IF ok THEN ar ELSE "denied", NoEvent, FALSE))

\* init resumes after setupVideo: a refused camera throws; otherwise
\* setupThreeJS runs and setupJSARToolKit starts, which rejects at once when
\* artoolkit is undefined ("missing") or new ARController throws ("throws")
GSetupVideo(ok, ar) ==
    /\ gesture.stage = "setupVideo"
    /\ GStep([ gesture EXCEPT !.stage = IF ok /\ ar = "created"
                                        THEN "setupJSARToolKit" ELSE "failed",
                              !.stream = IF ok THEN "running" ELSE @ ],
             Ran("gesture.setupVideo", IF ok THEN ar ELSE "denied", NoEvent, FALSE))

\* arController.onload: the set-up succeeds, setupWebSocket runs and
\* loadCarModel starts; or the set-up throws and init fails
GARControllerOnload(ok, wsThrows) ==
    /\ gesture.stage = "setupJSARToolKit"
    /\ GStep(IF ok
             THEN setupWebSocket([ gesture EXCEPT !.arLoaded = TRUE,
                                                  !.stage = "loadCarModel" ], wsThrows)
             ELSE [ gesture EXCEPT !.stage = "failed" ],
             Ran("gesture.arController.onload",
                 IF ~ok THEN "throws" ELSE IF wsThrows THEN "nosocket" ELSE "socket",
                 NoEvent, FALSE))

\* arController.onerror
GARControllerOnerror ==
    /\ gesture.stage = "setupJSARToolKit"
    /\ GStep([ gesture EXCEPT !.stage = "failed" ],
             Ran("gesture.arController.onerror", "", NoEvent, FALSE))

\* the loader calls back (on error the fallback car is built), init resumes:
\* startRenderLoop makes the first render loop call; an exception of that call
\* is caught by init
GCarModelLoaded(ok, dt, ev) ==
    /\ gesture.stage = "loadCarModel"
    /\ LET g == [ gesture EXCEPT !.car = IF ok THEN "gltf" ELSE "fallback",
                                  !.rendering = TRUE ]
           r == gestureRenderLoop(g, ev, gesture.now + dt)
       IN  GStep([ r.g EXCEPT !.stage = IF r.threw THEN "failed" ELSE "initialized" ],
                 Ran("gesture.loadCarModel", IF ok THEN "gltf" ELSE "fallback",
                     ev, r.threw))

\* an animation frame of the gesture page
GFrame(dt, ev) ==
    /\ gesture.rendering
    /\ gesture.frames < MaxGestureFrames
    /\ LET r == gestureRenderLoop(gesture, ev, gesture.now + dt)
       IN  GStep(r.g, Ran("gesture.renderLoop", "", ev, r.threw))

\* websocket.onopen
GSocketOpen ==
    /\ gesture.websocket = "connecting"
    /\ gesture.serverUp
    /\ GStep([ gesture EXCEPT !.websocket = "open",
                              !.handTrackingConnected = TRUE,
                              !.failures = 0 ],
             Ran("websocket.onopen", "", NoEvent, FALSE))

\* websocket.onclose: the reconnect timer is set
onclose(g) ==
    [ g EXCEPT !.websocket = "retrying",
               !.handTrackingConnected = FALSE,
               !.retryIn = ReconnectDelay ]

\* the connection attempt fails: onerror, then onclose
GSocketFail ==
    /\ gesture.websocket = "connecting"
    /\ ~gesture.serverUp
    /\ GStep([ onclose(gesture) EXCEPT
                 !.failures = IF gesture.failures < MaxFailures
                              THEN gesture.failures + 1 ELSE gesture.failures ],
             Ran("websocket.onclose", "failed", NoEvent, FALSE))

\* the open connection closes
GSocketClose ==
    /\ gesture.websocket = "open"
    /\ GStep(onclose(gesture), Ran("websocket.onclose", "closed", NoEvent, FALSE))

\* time passes on the reconnect timer
TimerTick == ReconnectDelay \div 4

GTimerTick ==
    /\ gesture.websocket = "retrying"
    /\ gesture.retryIn > 0
    /\ GStep([ gesture EXCEPT !.retryIn = IF gesture.retryIn > TimerTick
                                          THEN gesture.retryIn - TimerTick ELSE 0 ],
             Ran("timer", "", NoEvent, FALSE))

\* a variant of reconnect: after MaxFailures failed attempts it gives up
reconnectLimited(g) ==
    IF ~g.handTrackingConnected /\ g.failures < MaxFailures
    THEN setupWebSocket(g, FALSE)
    ELSE [ g EXCEPT !.websocket = "closed" ]

\* the callback of the reconnect timer; the constructor, which did not throw
\* for this URL before, does not throw now
reconnect(g) ==
    IF ~g.handTrackingConnected
    THEN setupWebSocket(g, FALSE)
    ELSE [ g EXCEPT !.websocket = "closed" ]

\* the reconnect timer fires
GReconnect ==
    /\ gesture.websocket = "retrying"
    /\ gesture.retryIn = 0
    /\ GStep(reconnect(gesture), Ran("reconnect", "", NoEvent, FALSE))

\* the hand-tracking server starts or stops accepting connections
GServer(up) ==
    /\ gesture.stage \in { "loadCarModel", "initialized", "failed" }
    /\ gesture.websocket # "none"
    /\ gesture.serverUp # up
    /\ GStep([ gesture EXCEPT !.serverUp = up ],
             Ran("server", IF up THEN "up" ELSE "down", NoEvent, FALSE))

\* websocket.onmessage with a message that parses
GMessage(data) ==
    /\ gesture.websocket = "open"
    /\ gesture.messages < MaxMessages
    /\ GStep(handleHandTrackingData([ gesture EXCEPT !.messages = gesture.messages + 1 ],
                                    data),
             Ran("websocket.onmessage", "", NoEvent, FALSE))

GestureStartup ==
    \/ \E ok \in BOOLEAN, ar \in {"missing", "throws", "created"} : GSetupVideo(ok, ar)
    \/ \E ok \in BOOLEAN, wsThrows \in BOOLEAN : GARControllerOnload(ok, wsThrows)
    \/ GARControllerOnerror
    \/ \E ok \in BOOLEAN, dt \in GestureFrameGaps, ev \in GestureMarkerEvents :
          GCarModelLoaded(ok, dt, ev)

\* GestureSpec: the gesture page from its load on, the server up from some
\* point on and the connection, once open, kept
GestureNext ==
    \/ GestureStartup
    \/ \E dt \in GestureFrameGaps, ev \in GestureMarkerEvents : GFrame(dt, ev)
    \/ GServer(TRUE)
    \/ GSocketOpen
    \/ \E data \in HandMessages : GMessage(data)

GestureSpec == GestureInit /\ [][GestureNext]_vars

\* SocketSpec: the life of the hand-tracking socket from the first connection
\* attempt on.  Timers fire and connection attempts end; the server and the
\* network do as they please.
SocketInit ==
    InitWith("off",
             setupWebSocket([ gestureInitial EXCEPT !.arLoaded = TRUE,
                                                    !.stage = "loadCarModel" ], FALSE),
             Ran("gesture.arController.onload", "socket", NoEvent, FALSE))

SocketNext ==
    \/ GSocketOpen
    \/ GSocketFail
    \/ GSocketClose
    \/ GTimerTick
    \/ GReconnect
    \/ \E up \in BOOLEAN : GServer(up)
    \/ \E data \in HandMessages : GMessage(data)

SocketSpec ==
    /\ SocketInit
    /\ [][SocketNext]_vars
    /\ WF_vars(GSocketOpen) /\ WF_vars(GSocketFail)
    /\ WF_vars(GTimerTick) /\ WF_vars(GReconnect)

\* StartupSpec: either page from its load to its first frames, no key pressed
\* and no marker shown
StartupInit == Init \/ GestureInit

StartupNext ==
    \/ \E found \in BOOLEAN : WindowOnload(found)
    \/ \E o \in {"denied", "nocameras", "listed"} : EnumerateCameras(o)
    \/ RefreshCameras
    \/ \E o \in {"stream", "file"} : StartCameraStream(o)
    \/ \E ok \in BOOLEAN : VideoLoaded(ok)
    \/ \E o \in {"missing", "throws", "created"} : StartProcessing(o)
    \/ \E ok \in BOOLEAN : CarModelLoaded(ok)
    \/ \E v \in BOOLEAN : ARControllerOnload(v)
    \/ ARControllerOnerror
    \/ \E dt \in FrameGaps : Frame(dt)
    \/ ProcessReturn
    \/ GestureStartup
    \/ \E dt \in GestureFrameGaps : GFrame(dt, NoEvent)

StartupSpec == StartupInit /\ [][StartupNext]_vars

----------------------------------------------------------------------------
(* The camera layer of the keyboard variant: handlers and continuations *)

\* a step of the camera layer
CamStep(c, ran) ==
    /\ cam' = c
    /\ last' = ran
    /\ UNCHANGED << pageVars, video, gesture >>

\* if (currentStream) { stop its tracks; currentStream = null }; a stream
\* whose tracks are stopped delivers no metadata to the video any more
stopCurrent(c) ==
    IF c.currentStream # 0
    THEN [ c EXCEPT !.running = @ \ { c.currentStream },
                    !.currentStream = 0,
                    !.metadataDue = FALSE ]
    ELSE c

\* getUserMedia resolves with a new stream: currentStream = stream;
\* video.srcObject = stream
install(c) ==
    [ c EXCEPT !.acquired = c.acquired + 1,
               !.running = @ \cup { c.acquired + 1 },
               !.currentStream = c.acquired + 1,
               !.metadataDue = TRUE ]

\* a variant of the entry test of enumerateAndPopulateCameras: no test
enumerationAdmittedAlways(c) == TRUE

\* if (isEnumerating) return
enumerationAdmitted(c) == ~c.isEnumerating

\* the finally block of enumerateAndPopulateCameras, and the refresh handler
\* resuming after its await
enumerationEnds(c) ==
    [ c EXCEPT !.isEnumerating = FALSE,
               !.enumerate = "idle",
               !.enumerateBy = "none",
               !.enumerations = c.enumerations - 1,
               !.refreshDisabled = IF c.enumerateBy = "refresh" THEN FALSE ELSE @ ]

\* startCameraStream up to its first await
startCameraStream(c, who) ==
    IF who = "change"
    THEN [ stopCurrent(c) EXCEPT !.changeCall = "main" ]
    ELSE [ stopCurrent(c) EXCEPT !.autoCall = "main" ]

\* startCameraStream returns to the change handler or to
\* enumerateAndPopulateCameras, which go on to their end
callReturns(c, who) ==
    IF who = "change"
    THEN [ c EXCEPT !.changeCall = "idle", !.selectDisabled = FALSE ]
    ELSE enumerationEnds([ c EXCEPT !.autoCall = "idle" ])

CallPhase(c, who) == IF who = "change" THEN c.changeCall ELSE c.autoCall

CamOpen == video = "detail" \/ (video = "processing" /\ cam.starts > 0)

\* Timers fire in the order of their due times: a start timer (100 ms) that
\* is pending when a change timer (200 ms) or a refresh timer (300 ms) is set
\* fires before it, and so does a pending change timer before a refresh timer
\* set after it.

\* the user clicks the refresh button: clearTimeout, setTimeout(..., 300)
CRefreshClick ==
    /\ CamOpen
    /\ ~cam.torndown
    /\ ~cam.refreshDisabled
    /\ cam.clicks < MaxClicks
    /\ CamStep([ cam EXCEPT !.refreshTimer = TRUE,
                            !.refreshWaits = cam.startTimers,
                            !.refreshAfterChange = cam.changeTimer,
                            !.clicks = cam.clicks + 1 ],
               Ran("refresh.click", "", NoEvent, FALSE))

\* the timer of initializeCameraSelection ("initial") or of the refresh button
\* fires and calls enumerateAndPopulateCameras, which returns at once or goes
\* on to its first await
CEnumerate(by) ==
    /\ CamOpen
    /\ IF by = "initial"
       THEN cam.initialTimer
       ELSE cam.refreshTimer /\ cam.refreshWaits = 0 /\ ~cam.refreshAfterChange
    /\ LET c == IF by = "initial" THEN [ cam EXCEPT !.initialTimer = FALSE ]
                                  ELSE [ cam EXCEPT !.refreshTimer = FALSE ]
       IN  IF enumerationAdmitted(cam)
           THEN CamStep([ c EXCEPT !.isEnumerating = TRUE,
                                   !.enumerate = "temp",
                                   !.enumerateBy = by,
                                   !.enumerations = cam.enumerations + 1,
                                   !.refreshDisabled = IF by = "refresh" THEN TRUE ELSE @ ],
                        Ran("enumerateAndPopulateCameras", "entered", NoEvent, FALSE))
           ELSE CamStep(c, Ran("enumerateAndPopulateCameras", "returned", NoEvent, FALSE))

\* the getUserMedia of the enumeration settles: the temporary stream is
\* stopped, or the catch and finally blocks run
CEnumerateTemp(ok) ==
    /\ cam.enumerate = "temp"
    /\ ok => cam.acquired < MaxStreams
    /\ CamStep(IF ok THEN [ cam EXCEPT !.acquired = cam.acquired + 1,
                                       !.enumerate = "devices" ]
                     ELSE enumerationEnds(cam),
               Ran("enumerateAndPopulateCameras", IF ok THEN "granted" ELSE "denied",
                   NoEvent, FALSE))

\* enumerateDevices settles with n cameras (n = -1: it rejects); with one
\* camera the second copy calls startCameraStream before its end
CEnumerateDevices(n) ==
    /\ cam.enumerate = "devices"
    /\ LET c == [ cam EXCEPT !.cameras = IF n >= 0 THEN n ELSE @ ]
       IN  IF cam.autoStart /\ n = 1
           THEN CamStep([ startCameraStream(c, "auto") EXCEPT !.enumerate = "autostart" ],
                        Ran("enumerateAndPopulateCameras", "autostart", NoEvent, FALSE))
           ELSE CamStep(enumerationEnds(c),
                        Ran("enumerateAndPopulateCameras",
                            IF n < 0 THEN "failed" ELSE IF n = 0 THEN "nocameras" ELSE "listed",
                            NoEvent, FALSE))

\* the user selects a camera: the change handler sets its debounce timer
\* unless an enumeration is running
CChange ==
    /\ CamOpen
    /\ ~cam.torndown
    /\ cam.cameras > 0
    /\ ~cam.selectDisabled
    /\ cam.clicks < MaxClicks
    /\ CamStep(IF cam.isEnumerating
               THEN [ cam EXCEPT !.clicks = cam.clicks + 1 ]
               ELSE [ cam EXCEPT !.changeTimer = TRUE,
                                 !.changeWaits = cam.startTimers,
                                 !.refreshAfterChange = FALSE,
                                 !.clicks = cam.clicks + 1 ],
               Ran("select.change", IF cam.isEnumerating THEN "ignored" ELSE "timer",
                   NoEvent, FALSE))

\* the debounce timer of the camera select fires
CChangeTimer ==
    /\ cam.changeTimer
    /\ cam.changeWaits = 0
    /\ CamStep(startCameraStream([ cam EXCEPT !.changeTimer = FALSE,
                                              !.refreshAfterChange = FALSE,
                                              !.selectDisabled = TRUE ], "change"),
               Ran("startCameraStream", "change", NoEvent, FALSE))

\* the getUserMedia of a startCameraStream call settles: the stream is
\* installed, or the fallback request is made
CStreamMain(who, ok) ==
    /\ CallPhase(cam, who) = "main"
    /\ ok => cam.acquired < MaxStreams
    /\ CamStep(IF ok THEN callReturns(install(cam), who)
                     ELSE IF who = "change" THEN [ cam EXCEPT !.changeCall = "fallback" ]
                                            ELSE [ cam EXCEPT !.autoCall = "fallback" ],
               Ran("startCameraStream:" \o who, IF ok THEN "stream" ELSE "fallback",
                   NoEvent, FALSE))

\* the fallback getUserMedia settles: the stream is installed, or the video
\* file becomes the source
CStreamFallback(who, ok) ==
    /\ CallPhase(cam, who) = "fallback"
    /\ ok => cam.acquired < MaxStreams
    /\ CamStep(callReturns(IF ok THEN install(cam)
                                 ELSE [ cam EXCEPT !.metadataDue = TRUE ], who),
               Ran("startCameraStream:" \o who, IF ok THEN "stream" ELSE "file",
                   NoEvent, FALSE))

\* video.onloadedmetadata
onloadedmetadata(c) ==
    IF ~c.isProcessingStarted
    THEN [ c EXCEPT !.metadataDue = FALSE, !.startTimers = c.startTimers + 1 ]
    ELSE [ c EXCEPT !.metadataDue = FALSE ]

\* the video element has the metadata of its new source
CLoadedMetadata ==
    /\ cam.metadataDue
    /\ CamStep(onloadedmetadata(cam), Ran("video.onloadedmetadata", "", NoEvent, FALSE))

\* the timer of video.onloadedmetadata fires: start_processing();
\* isProcessingStarted = true
CStartTimer(arOutcome) ==
    /\ cam.startTimers > 0
    /\ cam' = [ cam EXCEPT !.startTimers = cam.startTimers - 1,
                           !.changeWaits = IF @ > 0 THEN @ - 1 ELSE 0,
                           !.refreshWaits = IF @ > 0 THEN @ - 1 ELSE 0,
                           !.starts = cam.starts + 1,
                           !.isProcessingStarted = TRUE ]
    /\ start_processing(arOutcome)

\* cleanup
cleanup(c) == stopCurrent(c)

\* beforeunload or pagehide; the page is not destroyed with it (a download,
\* a page kept for the history), so that what is in flight still settles
CTeardown ==
    /\ CamOpen
    /\ ~cam.torndown
    /\ CamStep([ cleanup(cam) EXCEPT !.torndown = TRUE ],
               Ran("cleanup", "", NoEvent, FALSE))

\* beforeunload or pagehide of the gesture page, which has no listener for them
GTeardown ==
    /\ gesture.stage # "off"
    /\ last.op # "gesture.teardown"
    /\ GStep(gesture, Ran("gesture.teardown", "", NoEvent, FALSE))

\* CameraSpec: the camera layer of either page, from the page's load to the
\* calls of start_processing (keyboard) or the start of the render loop (gesture)
CameraInit ==
    \/ \E auto \in BOOLEAN :
          InitAll("detail", GestureOff, camInitial(auto), Ran("load", "", NoEvent, FALSE))
    \/ GestureInit

CameraNext ==
    \/ CRefreshClick
    \/ \E by \in { "initial", "refresh" } : CEnumerate(by)
    \/ \E ok \in BOOLEAN : CEnumerateTemp(ok)
    \/ \E n \in { -1, 0, 1, 2 } : CEnumerateDevices(n)
    \/ CChange
    \/ CChangeTimer
    \/ \E who \in { "change", "auto" }, ok \in BOOLEAN : CStreamMain(who, ok)
    \/ \E who \in { "change", "auto" }, ok \in BOOLEAN : CStreamFallback(who, ok)
    \/ CLoadedMetadata
    \/ \E o \in { "missing", "throws", "created" } : CStartTimer(o)
    \/ CTeardown
    \/ GestureStartup
    \/ GTeardown

CameraSpec == CameraInit /\ [][CameraNext]_vars

----------------------------------------------------------------------------
(* Properties *)

IsFrame(l) == l.op \in {"renderLoop", "renderLoop:processed"} \/ (l.op = "getMarker" /\ l.threw)

IsReset(l) == l.op = "keydown" /\ l.code = "KeyR"

IsMarker(l) == l.op = "getMarker"

\* the event's matrix is no 16-element array
Malformed(ev) == ~ev.present \/ Len(ev.matrix) # 16

\* C1: while the plane is established no step, whatever handler takes it, changes
\* arSystem.planeMatrix, and the matrix has been written exactly once since the
\* last reset (or since the start)
C1_AnchorWrittenOnce ==
    /\ [](arSystem.planeEstablished => anchorWrites = 1)
    /\ [][arSystem.planeEstablished => arSystem'.planeMatrix = arSystem.planeMatrix]_vars

\* C1 witness: established, and a further getMarker event with a valid id and a
\* pose other than the stored one has just been handled
C1_Witness ==
    /\ arSystem.planeEstablished
    /\ IsMarker(last) /\ last.ev.id # -1 /\ last.ev.matrix \in ValidPoses
    /\ fixMatrix(last.ev.matrix) # arSystem.planeMatrix

\* C2: a reset leaves searchingForMarker true and planeEstablished false, and
\* the plane matrix of an established plane is no longer the one stored
C2_ResetClearsAnchor ==
    [][IsReset(last') =>
         /\ arSystem'.searchingForMarker
         /\ ~arSystem'.planeEstablished
         /\ (arSystem.planeEstablished =>
               arSystem'.planeMatrix # arSystem.planeMatrix)]_vars

\* C3: the stored speed and the magnitude of the velocity never exceed maxSpeed
C3_SpeedLimited ==
    /\ carSystem.speed <= maxSpeed
    /\ carSystem.velocity.x * carSystem.velocity.x
         + carSystem.velocity.z * carSystem.velocity.z <= maxSpeed * maxSpeed

\* C3 witness: a frame has run with all five keys held and the car moving
C3_Witness ==
    /\ IsFrame(last)
    /\ \A k \in KeyNames : keysAtFrame[k]
    /\ carSystem.speed > turnDeadzone

\* C4: a getMarker event with a valid id and a malformed matrix, handled while
\* searching, leaves the search on and the plane matrix as it was, and no
\* exception leaves the handler
C4_MalformedPoseRejected ==
    [][(/\ IsMarker(last')
        /\ last'.ev.id # -1
        /\ Malformed(last'.ev)
        /\ arSystem.searchingForMarker)
       => /\ arSystem'.searchingForMarker
          /\ arSystem'.planeMatrix = arSystem.planeMatrix
          /\ ~last'.threw]_vars

\* the direction of travel along the heading: 1 forward, -1 backward
TravelSign(car) ==
    Sign(car.velocity.x * RoundDiv(Sin(car.rotation), 100)
           + car.velocity.z * RoundDiv(Cos(car.rotation), 100))

\* C5: with left held (and right not) above the dead zone, a tick turns the car
\* by turnSpeed towards the side given by its direction of travel: one way when
\* it travels forward, the other way when it travels backward
C5_SteerFollowsTravel ==
    [][(/\ IsFrame(last')
        /\ carSystem.keys.left /\ ~carSystem.keys.right
        /\ carSystem.speed > turnDeadzone)
       => carSystem'.rotation
            = carSystem.rotation + turnSpeed * TravelSign(carSystem)]_vars

\* the fixed point of v -> (v + acceleration) * friction, and the value
\* acceleration / (1 - friction)
ForwardLimit == (acceleration * friction) \div (100 - friction)
ForwardLimitNoFriction == (acceleration * 100) \div (100 - friction)

Within1Percent(x, target) == 100 * Abs(x - target) <= target

\* C6 as stated: after 100 ticks from rest with only forward held the speed
\* is within 1% of acceleration / (1 - friction) = 0.24
C6_Within1PercentOf024 ==
    (carSystem.keys = ForwardOnly /\ segFrames = 100)
      => Within1Percent(carSystem.speed, ForwardLimitNoFriction)

\* C6 amended: after 100 ticks from rest with only forward held the speed is
\* within 1% of acceleration * friction / (1 - friction) = 0.228
C6_Within1PercentOf0228 ==
    (carSystem.keys = ForwardOnly /\ segFrames = 100)
      => Within1Percent(carSystem.speed, ForwardLimit)

\* C6 witness: the hundredth tick of the forward-only run has run
C6_Witness ==
    carSystem.keys = ForwardOnly /\ segFrames = 100 /\ IsFrame(last)

\* the distance from the fixed point below which a tick's gain is lost in rounding
ForwardMargin == 100 \div (2 * (100 - friction))

\* C7 as stated: from rest with only forward held the speeds approach maxSpeed;
\* the gap to the limit shrinks by the factor friction every tick, so by the
\* end of the run the speed is within 1% of maxSpeed
C7_ApproachesMaxSpeed ==
    (carSystem.keys = ForwardOnly /\ segFrames = MaxForwardTicks)
      => carSystem.speed >= maxSpeed - maxSpeed \div 100

\* C7 amended: from rest with only forward held no tick lowers the speed, every
\* tick raises it until rounding absorbs the gain, and the speed stays at or
\* below acceleration * friction / (1 - friction) = 0.228, which it has
\* approached to within the rounding margin by the end of the run
C7_ApproachesFixedPoint ==
    /\ [][IsFrame(last') =>
            /\ carSystem'.speed >= carSystem.speed
            /\ (carSystem.speed < ForwardLimit - ForwardMargin
                  => carSystem'.speed > carSystem.speed)
            /\ carSystem'.speed <= ForwardLimit]_vars
    /\ [](segFrames = MaxForwardTicks
            => carSystem.speed >= ForwardLimit - ForwardMargin)

\* C7 witness: a long forward-only run has brought the speed within 1% of the
\* fixed point
C7_Witness ==
    /\ carSystem.keys = ForwardOnly /\ IsFrame(last) /\ segFrames > 100
    /\ Within1Percent(carSystem.speed, ForwardLimit)

\* the speed below which the car counts as stopped, and the number of ticks a
\* speed s needs to fall below eps when each tick scales it by friction
CoastEpsilon == maxSpeed \div 40

RECURSIVE DecayTicks(_, _)
DecayTicks(s, eps) ==
    IF s < eps THEN 0 ELSE 1 + DecayTicks((s * friction) \div 100 + 1, eps)

CoastBound == DecayTicks(maxSpeed, CoastEpsilon)

\* C8: with no key held a tick never raises the speed and scales it by friction
\* (up to rounding), and CoastBound ticks bring it below CoastEpsilon
C8_CoastsToRest ==
    /\ []((segments = 2 /\ keysAtFrame = NoKeys /\ segFrames >= CoastBound)
            => carSystem.speed < CoastEpsilon)
    /\ [][(IsFrame(last') /\ carSystem.keys = NoKeys) =>
            /\ carSystem'.speed <= carSystem.speed
            /\ carSystem'.speed <= RoundDiv(carSystem.speed * friction, 100) + 2]_vars

\* C8 witness: the car was driven away from the origin, the keys were released
\* and CoastBound ticks later it is below CoastEpsilon
C8_Witness ==
    /\ segments = 2 /\ keysAtFrame = NoKeys /\ segFrames = CoastBound
    /\ carSystem.speed < CoastEpsilon
    /\ Abs(carSystem.position.z) > 20 * maxSpeed

\* C9: a tick that begins with the speed at or below the dead zone leaves the
\* rotation as it was
C9_NoTurnInDeadzone ==
    [][(IsFrame(last') /\ Abs(carSystem.speed) <= turnDeadzone)
       => carSystem'.rotation = carSystem.rotation]_vars

\* C9 witness: a tick ran with left held and the car moving below the dead zone
C9_Witness ==
    /\ IsFrame(last) /\ keysAtFrame.left /\ ~keysAtFrame.right
    /\ last.speed0 > 0 /\ last.speed0 <= turnDeadzone
    /\ carSystem.rotation = last.rotation0

\* C10: a getMarker event with id -1 changes nothing
C10_SentinelIsNoOp ==
    [][(IsMarker(last') /\ last'.ev.id = -1) =>
         UNCHANGED << arSystem, carSystem, markerStatus, container, carModel,
                      gridVisible, arLoaded, arController, camera,
                      lastProcessTime, anchorWrites, invokedAt, video, gesture, cam >>]_vars

\* C10 witness: the sentinel came with a valid pose while searching
C10_Witness ==
    /\ IsMarker(last) /\ last.ev.id = -1 /\ last.ev.matrix \in ValidPoses
    /\ arSystem.searchingForMarker

\* column c (0-based) of a 16-element column-major pose
PoseColumn(m, c) == [ r \in 1..4 |-> m[4 * c + r] ]

\* the matrix with columns (col0(m), col2(m), -col1(m), col3(m)), column-major
AxisConverted(m) ==
    [ i \in 1..16 |->
        LET c == (i - 1) \div 4
            r == ((i - 1) % 4) + 1
        IN  IF c = 0 THEN Num(PoseColumn(m, 0)[r])
            ELSE IF c = 1 THEN Num(PoseColumn(m, 2)[r])
            ELSE IF c = 2 THEN Num(-PoseColumn(m, 1)[r])
            ELSE Num(PoseColumn(m, 3)[r]) ]

\* rows [1,0,0,0], [0,0,-1,0], [0,1,0,0], [0,0,0,1], stored column-major
AxisConvertedIdentity ==
    << Num(1), Num(0), Num(0), Num(0),
       Num(0), Num(0), Num(1), Num(0),
       Num(0), Num(-1), Num(0), Num(0),
       Num(0), Num(0), Num(0), Num(1) >>

\* C11: a getMarker event with a valid id and a 16-element pose m, handled
\* while searching, establishes the plane and stores the axis-converted matrix
\* (col0(m), col2(m), -col1(m), col3(m)); for the identity pose that is the
\* constant AxisConvertedIdentity
C11_AnchorIsAxisConverted ==
    [][(/\ IsMarker(last')
        /\ last'.ev.id # -1
        /\ ~Malformed(last'.ev)
        /\ arSystem.searchingForMarker)
       => /\ arSystem'.planeEstablished
          /\ ~arSystem'.searchingForMarker
          /\ arSystem'.planeMatrix = AxisConverted(last'.ev.matrix)
          /\ (last'.ev.matrix = IdentityPose
                => arSystem'.planeMatrix = AxisConvertedIdentity)]_vars

\* C11 witness: the marker with id 7 and the tilted pose has just established
\* the plane
C11_Witness ==
    /\ IsMarker(last) /\ last.ev.id = 7 /\ last.ev.matrix = TiltedPose
    /\ arSystem.planeEstablished /\ anchorWrites = 1
    /\ arSystem.planeMatrix = AxisConverted(TiltedPose)

\* the step is a renderLoop call that enters arController.process
Invokes(l) == l.op = "renderLoop:process"

\* the step is the start of a renderLoop call
StartsFrame(l) == l.op \in {"renderLoop", "renderLoop:process"}

\* the phase: searching for the marker, or anchored on the established plane
Searching(ar) == ar.searchingForMarker /\ ~ar.planeEstablished
Anchored(ar) == ar.planeEstablished /\ ~ar.searchingForMarker

\* C12: a frame calls arController.process only while searching, so none does
\* while the plane is established; and with the recognizer loaded a frame that
\* comes a processing interval after the last recognition, while searching
\* (after a reset too), does call it
C12_RecognitionOnlyWhileSearching ==
    /\ [][Invokes(last') => (Searching(arSystem) /\ Searching(arSystem'))]_vars
    /\ [][(StartsFrame(last') /\ Anchored(arSystem)) => ~Invokes(last')]_vars
    /\ [][(/\ StartsFrame(last')
            /\ arLoaded
            /\ Searching(arSystem)
            /\ clock' - lastProcessTime >= processingInterval)
           => Invokes(last')]_vars

\* C12 witness: the plane was established, R was pressed, and a frame has
\* entered arController.process again (the matrix of the earlier anchoring is
\* still stored)
C12_Witness ==
    /\ Invokes(last)
    /\ pc = "process"
    /\ anchorWrites = 0
    /\ arSystem.planeMatrix # IdentityElements

\* C12 witness of the other half: a frame has run to its end on the
\* established plane without calling arController.process
C12_WitnessAnchoredFrame ==
    /\ last.op = "renderLoop"
    /\ Anchored(arSystem)
    /\ clock - lastProcessTime >= processingInterval

\* C13 as stated: a frame that calls arController.process comes at least
\* processingInterval of frame time after the frame of the previous call,
\* whether that call returned or raised
C13_RecognitionThrottled ==
    [][(Invokes(last') /\ invokedAt >= 0)
         => invokedAt' - invokedAt >= processingInterval]_vars

\* fallback mode: setupFallbackCamera has run and the recognizer is not loaded
Fallback(ar, loaded) == ~loaded /\ ar.initialized

\* the frame that has just ended advanced the car by updateCarPhysics
PhysicsAdvanced ==
    /\ carSystem'.velocity = updateCarPhysics(carSystem).velocity
    /\ carSystem'.position = updateCarPhysics(carSystem).position

\* C14 as stated: every frame that ends while searching leaves the container
\* hidden and has advanced the car's position and velocity
C14_HiddenWhileSearching ==
    [][(IsFrame(last') /\ Searching(arSystem'))
         => (~container'.visible /\ PhysicsAdvanced)]_vars

\* C14 amended: every frame that ends while searching, outside fallback mode,
\* leaves the container hidden; every frame that ends while searching, in
\* fallback mode or not, has advanced the car's position and velocity
C14_HiddenWhileSearchingUnlessFallback ==
    [][(IsFrame(last') /\ Searching(arSystem'))
         => /\ ~Fallback(arSystem', arLoaded') => ~container'.visible
            /\ Fallback(arSystem', arLoaded') => container'.visible
            /\ PhysicsAdvanced]_vars

\* C14 witness: the recognizer is loaded, the marker is searched for, W is held
\* and a frame has moved the car while the container stayed hidden
C14_Witness ==
    /\ IsFrame(last)
    /\ arLoaded /\ Searching(arSystem)
    /\ carSystem.keys.forward /\ carSystem.position.z > 0
    /\ ~container.visible

\* setupFallbackCamera has run (it installs the perspective camera, which is
\* never replaced) and the recognizer is not loaded
RecognizerUnavailable(view, loaded) == view = "perspective" /\ ~loaded

\* C15 as stated: with the recognizer unavailable every frame leaves the
\* 'disabled' marker status on display
C15_DisabledStatusShown ==
    [][(IsFrame(last') /\ RecognizerUnavailable(camera', arLoaded'))
         => markerStatus' = StatusDisabled]_vars

\* the car model shows the car where carSystem has it
ModelSynchronised(model, car) ==
    /\ model.x = car.position.x
    /\ model.z = car.position.z
    /\ model.rotY = car.rotation

\* C16 as stated: with the recognizer unavailable every frame, whatever keys
\* came before it, leaves the container visible and the loaded car model
\* synchronised with carSystem
C16_FallbackStaysUsable ==
    [][(IsFrame(last') /\ RecognizerUnavailable(camera', arLoaded'))
         => /\ container'.visible
            /\ carModel'.state = "loaded" => ModelSynchronised(carModel', carSystem')]_vars
\* the render loop of the keyboard page runs from start_processing on, the one
\* of the gesture page from startRenderLoop on
KeyboardRendering == video = "processing" /\ container.created
GestureRendering == gesture.rendering

\* initialisation has come to its end: init of the gesture page has returned,
\* the camera enumeration of the keyboard page has failed with nothing pending
GestureInitEnded == gesture.stage \in { "failed", "initialized" }
KeyboardInitEnded == video \in { "denied", "nocameras", "processing" }

\* C17: no start-up failure is fatal.  Whatever the outcome of initialisation
\* (camera refused, recognizer library missing, recognizer load error,
\* car-model load error), once initialisation has ended the render loop of
\* the page is running, in both variants.
C17_NoStartupFailureIsFatal ==
    /\ GestureInitEnded => GestureRendering
    /\ KeyboardInitEnded => KeyboardRendering

\* a frame has been rendered
KeyboardFrameRendered == frames > 0
GestureFrameRendered == gesture.frames > 0

\* an asynchronous load of the keyboard page is still pending
KeyboardLoadPending == arController = "loading" \/ carModel.state = "loading"

\* the loads of the gesture page are complete
GestureLoadsComplete == gesture.arLoaded /\ gesture.car \in { "gltf", "fallback" }

\* C18 (as stated): a frame is rendered only after camera acquisition and the
\* asynchronous loads (recognizer parameter file, car model or its fallback)
\* have completed; no frame is rendered while one of them is pending.
C18_NoFrameWhileLoading ==
    /\ GestureFrameRendered => GestureLoadsComplete
    /\ KeyboardFrameRendered => video = "processing" /\ ~KeyboardLoadPending

\* C18 (amended): in the gesture variant a frame is rendered only after the
\* camera, the recognizer and the car model (or its fallback) are there; in
\* the keyboard variant a frame is rendered only after camera acquisition
\* (the recognizer and the car model may still be loading).
C18_FirstFrameAfterAcquisition ==
    /\ GestureFrameRendered => GestureLoadsComplete
    /\ KeyboardFrameRendered => video = "processing"

\* the keyboard page has rendered frames while both loads are pending
C18_Witness ==
    /\ KeyboardFrameRendered
    /\ last.op = "renderLoop"
    /\ arController = "loading"
    /\ carModel.state = "loading"

\* the gesture page has rendered its first frame, with the fallback car
C18_WitnessGesture ==
    /\ gesture.frames = 1
    /\ gesture.car = "fallback"
    /\ last.op = "gesture.loadCarModel"

\* a close event sets the reconnect timer to the full delay; the socket leaves
\* the wait only when the delay has run out, and then for a new attempt
ReconnectsAfterDelay ==
    /\ last'.op = "websocket.onclose" =>
          gesture'.websocket = "retrying" /\ gesture'.retryIn = ReconnectDelay
    /\ gesture.websocket = "retrying" /\ gesture'.websocket # "retrying" =>
          gesture.retryIn = 0 /\ gesture'.websocket = "connecting"

\* C19: every close event of the hand-tracking socket is followed, after the
\* fixed delay of 3 s, by a new connection attempt, however many attempts have
\* failed in a row; hence if the server is reachable from some point on,
\* handTrackingConnected becomes true.
C19_ReconnectsForever ==
    /\ [][ReconnectsAfterDelay]_vars
    /\ (gesture.websocket = "retrying") ~> (gesture.websocket = "connecting")
    /\ <>[]gesture.serverUp => []<>gesture.handTrackingConnected

\* a new attempt is in flight after MaxFailures failed attempts in a row
C19_Witness ==
    /\ gesture.failures = MaxFailures
    /\ gesture.websocket = "connecting"
    /\ last.op = "reconnect"

\* the pose of the car of the gesture page: position, heading, and the model
CarPose(g) == << g.carPosition, g.carRotation, g.carObject >>

\* C20: a steering message whose confidence does not exceed the threshold 0.7
\* freezes motion: the position and the heading of the car are the same
\* before and after the message.
C20_LowConfidenceFreezes ==
    [][ last'.op = "websocket.onmessage" /\ gesture'.handConfidence <= ConfidenceThreshold
          => CarPose(gesture') = CarPose(gesture) ]_vars

\* a message of confidence exactly 0.7 has arrived while the car could move:
\* the car is loaded, the marker is visible, the steering is not zero, and the
\* car had moved before
C20_Witness ==
    /\ last.op = "websocket.onmessage"
    /\ gesture.handConfidence = ConfidenceThreshold
    /\ gesture.car # "none"
    /\ gesture.markerVisible
    /\ gesture.smoothedSteering # 0
    /\ gesture.carPosition # Vec(0, 0)

\* a camera stream the page has acquired has a running track
KeyboardStreamRunning == cam.running # {}
GestureStreamRunning == gesture.stream = "running"

\* C21: after a page-teardown event (beforeunload or pagehide) no camera
\* stream acquired by the application has a running track and the stream
\* handle is cleared, in both variants, also when a camera acquisition was in
\* flight at teardown.
C21_TeardownReleasesCamera ==
    /\ cam.torndown => ~KeyboardStreamRunning /\ cam.currentStream = 0
    /\ last.op = "gesture.teardown" => ~GestureStreamRunning

\* C29: every camera stream acquired by startCameraStream is the current
\* stream or has had all its tracks stopped, also when two startCameraStream
\* calls overlap (the change handler, and the auto-start after an enumeration
\* that found exactly one camera).
C29_NoStreamLeftRunning ==
    \A id \in cam.running : id = cam.currentStream

\* C24: the isProcessingStarted flag prevents multiple initialisation:
\* whatever the sequence and timing of the loadedmetadata events of the video
\* (two events less than 100 ms apart included), start_processing, and with it
\* the render loop and the keyboard listeners, is started at most once.
C24_StartedAtMostOnce == cam.starts <= 1

\* the ends of an enumerateAndPopulateCameras call that got past its entry
EnumerationCompleted(l) ==
    \/ l.op = "enumerateAndPopulateCameras" /\
         l.code \in { "denied", "failed", "nocameras", "listed" }
    \/ l.op = "startCameraStream:auto" /\ l.code \in { "stream", "file" }

\* a call returned at its entry
EnumerationReturned(l) == l.op = "enumerateAndPopulateCameras" /\ l.code = "returned"

EnumerationExclusive ==
    /\ cam'.enumerations <= 1
    /\ EnumerationReturned(last') =>
          /\ cam.enumerations = 1
          /\ cam'.cameras = cam.cameras
          /\ cam'.enumerate = cam.enumerate
          /\ cam'.enumerations = cam.enumerations
          /\ cam'.isEnumerating
    /\ EnumerationCompleted(last') =>
          /\ cam.enumerations = 1
          /\ cam'.enumerations = 0
          /\ ~cam'.isEnumerating

\* C25: at most one execution of enumerateAndPopulateCameras is between its
\* entry and its exit at any time; a call made while another is awaiting
\* returns without touching the camera list; and isEnumerating is false again
\* after every completed call, whether it succeeded, found no camera or failed.
C25_OneEnumerationAtATime == [][EnumerationExclusive]_vars

\* the refresh timer's call returned at its entry while the call of the
\* initial timer was awaiting the device list
C25_Witness ==
    /\ EnumerationReturned(last)
    /\ cam.enumerateBy = "initial"
    /\ cam.enumerate = "devices"
    /\ cam.isEnumerating

\* a call that started a camera by itself has completed
C25_WitnessCompleted ==
    /\ EnumerationCompleted(last)
    /\ last.op = "startCameraStream:auto"
    /\ ~cam.isEnumerating

\* exactly one steer key is held
SteerKeyHeld(keys) == keys.left # keys.right

\* two ticks in a row with a steer key held: the one that led to this state,
\* at speed last.speed0, and the one of this step, at speed carSystem.speed
TwoSteeringTicks ==
    /\ IsFrame(last) /\ SteerKeyHeld(keysAtFrame)
    /\ IsFrame(last') /\ SteerKeyHeld(keysAtFrame')

\* C22: steering is proportional to speed: while a steer key is held, the
\* heading change of a tick grows with the speed of the car, a faster car
\* turning by a larger angle in a tick than a slower one.
C22_SteeringProportionalToSpeed ==
    [][ TwoSteeringTicks /\ carSystem.speed > last.speed0
          => Abs(carSystem'.rotation - carSystem.rotation)
               > Abs(carSystem.rotation - last.rotation0) ]_vars

\* the reference operator of one tick, its seven steps in their order
ReferenceTick(car) ==
    LET \* 1. accel: forward before backward
        accel == IF car.keys.forward THEN acceleration
                 ELSE IF car.keys.backward THEN -acceleration ELSE 0
        \* 2. brake: the velocity is scaled by brakeForce, whatever accel is
        b == IF car.keys.brake
             THEN Vec(RoundDiv(car.velocity.x * brakeForce, 100),
                      RoundDiv(car.velocity.z * brakeForce, 100))
             ELSE car.velocity
        \* 3. heading adjusted by steering
        turn == IF Abs(car.speed) > turnDeadzone THEN turnSpeed * Sign(car.speed) ELSE 0
        heading == car.rotation + (IF car.keys.left THEN turn ELSE 0)
                                - (IF car.keys.right THEN turn ELSE 0)
        \* 4. accel added along (sin heading, cos heading)
        a == Vec(b.x + RoundDiv(accel * Sin(heading), Scale),
                 b.z + RoundDiv(accel * Cos(heading), Scale))
        \* 5. friction
        f == Vec(RoundDiv(a.x * friction, 100), RoundDiv(a.z * friction, 100))
        \* 6. rescaled to maxSpeed if above it
        s == Sqrt(f.x * f.x + f.z * f.z)
        v == IF s > maxSpeed
             THEN Vec(RoundDiv(f.x * maxSpeed, s), RoundDiv(f.z * maxSpeed, s))
             ELSE f
        \* 7. position incremented by the resulting velocity
    IN  [ position |-> Vec(car.position.x + v.x, car.position.z + v.z),
          velocity |-> v,
          rotation |-> heading,
          speed |-> IF s > maxSpeed THEN maxSpeed ELSE s,
          keys |-> car.keys ]

\* the displacement of the step is at most maxSpeed, up to the resolution of
\* the arithmetic (one unit of 1/Scale, which the rounding of the rescaled
\* components can add)
DisplacementWithinMaxSpeed ==
    LET dx == carSystem'.position.x - carSystem.position.x
        dz == carSystem'.position.z - carSystem.position.z
    IN  dx * dx + dz * dz <= (maxSpeed + 1) * (maxSpeed + 1)

\* C23: for every vehicle state and every combination of held keys one
\* updateCarPhysics call equals the reference operator (accel with forward
\* before backward; brake; steering; accel along the heading; friction;
\* rescaling to maxSpeed; position), so that the displacement of a tick has
\* magnitude at most maxSpeed.
C23_TickIsReferenceOperator ==
    [][ IsFrame(last') =>
          /\ carSystem' = ReferenceTick(carSystem)
          /\ DisplacementWithinMaxSpeed
      ]_vars

\* a tick with forward, backward and a steer key held has turned the car and
\* rescaled the velocity
C23_Witness ==
    /\ IsFrame(last)
    /\ keysAtFrame.forward /\ keysAtFrame.backward /\ keysAtFrame.left
    /\ ~keysAtFrame.right
    /\ carSystem.rotation # last.rotation0
    /\ carSystem.speed = maxSpeed

\* a tick with brake and forward held
C23_WitnessBrake ==
    /\ IsFrame(last)
    /\ keysAtFrame.brake /\ keysAtFrame.forward
    /\ carSystem.speed > 0

\* the branch updateUI takes on arSystem as it is
UpdateUIBranch ==
    IF arSystem.planeEstablished THEN "active"
    ELSE IF arSystem.searchingForMarker THEN "searching"
    ELSE IF ~arLoaded THEN "disabled"
    ELSE "none"

\* C26: in every reachable state of the keyboard variant exactly one of
\* planeEstablished and searchingForMarker is true (initially, after marker
\* events, resets and fallback set-ups), so that updateUI never takes its
\* third branch, the one of the AR-disabled status.
C26_ExactlyOnePhaseFlag ==
    /\ arSystem.planeEstablished # arSystem.searchingForMarker
    /\ UpdateUIBranch \in { "active", "searching" }
    /\ updateUI(arSystem, arLoaded, markerStatus)
          \in { StatusPlaneActive, StatusSearchingForMarker }

\* R has been pressed after a plane had been established
C26_Witness ==
    /\ last.op = "keydown" /\ last.code = "KeyR"
    /\ arSystem.lastDetectionTime > 0
    /\ arSystem.searchingForMarker
    /\ ~arSystem.planeEstablished

\* a frame has run after the fallback set-up
C26_WitnessFallback ==
    /\ camera = "perspective"
    /\ arSystem.initialized
    /\ arSystem.searchingForMarker
    /\ IsFrame(last)

\* C27: after every updateCarPhysics call and after every reset
\* carSystem.speed is the magnitude of the velocity and is not negative, so
\* that Math.sign(carSystem.speed), which the steering of the next tick uses,
\* is never -1.
C27_SpeedIsMagnitude ==
    /\ carSystem.speed = Magnitude(carSystem.velocity)
    /\ carSystem.speed >= 0
    /\ Sign(carSystem.speed) # -1

\* a tick has driven the car backwards while it was steered
C27_Witness ==
    /\ IsFrame(last)
    /\ keysAtFrame.backward /\ ~keysAtFrame.forward /\ SteerKeyHeld(keysAtFrame)
    /\ carSystem.velocity.z < 0
    /\ carSystem.speed > turnDeadzone

\* R has reset a moving car
C27_WitnessReset ==
    /\ last.op = "keydown" /\ last.code = "KeyR"
    /\ segments = 2
    /\ carSystem.speed = 0
    /\ carSystem.velocity = Vec(0, 0)

\* acceleration * friction / (1 - friction): 0.228
SpeedLimit == (acceleration * friction) \div (100 - friction)

\* C28: with the shipped parameters and from rest, whatever the key events,
\* ticks and resets, the speed never exceeds
\* acceleration * friction / (1 - friction) = 0.228, so that updateCarPhysics
\* never takes its branch of rescaling to maxSpeed.
C28_SpeedBelowFrictionLimit ==
    /\ carSystem.speed <= SpeedLimit
    /\ Magnitude(carSystem.velocity) <= SpeedLimit
    /\ SpeedLimit < maxSpeed
    /\ carSystem.speed # maxSpeed

\* a long powered run has brought the speed within 1% of the limit
C28_Witness ==
    /\ IsFrame(last)
    /\ keysAtFrame.forward
    /\ carSystem.speed >= SpeedLimit - SpeedLimit \div 100

====
